---- MODULE Spec2Model ----
(***************************************************************************)
(* Payment authorization and settlement protocol of Cronos402/mcp:         *)
(* the EIP-3009 authorization validator and builder, the facilitator       *)
(* client's calls and its two-phase verify/settle exchange, the            *)
(* submitUsdcPayment route, and the on-chain verification of native CRO    *)
(* payments (verifyCroPayment and its endpoint).                           *)
(***************************************************************************)
EXTENDS Integers, Sequences, FiniteSets, TLC

(***************************************************************************)
(* Bounds of the model                                                     *)
(***************************************************************************)
\* last unix second the clock reaches
MaxNow == 2
\* largest transfer value (base units) enumerated for direct calls
MaxValue == 1
\* highest block number the chain head takes
MaxHead == 4
\* number of invocations that can use the shared client at the same time
MaxCalls == 2
\* factory calls (getFacilitatorClient, createFacilitatorClient) in one run
MaxHandles == 4

(***************************************************************************)
(* JavaScript values                                                       *)
(***************************************************************************)
\* an absent (undefined) optional string field
Undefined == "undefined"

\* !x for an optional string: undefined and the empty string are falsy
IsFalsy(x) == x \in {Undefined, ""}

\* a || b on optional strings
OrElse(a, b) == IF IsFalsy(a) THEN b ELSE a

DigitChars == <<"0", "1", "2", "3", "4", "5", "6", "7", "8", "9">>

HexChars == {"0", "1", "2", "3", "4", "5", "6", "7", "8", "9",
             "a", "b", "c", "d", "e", "f", "A", "B", "C", "D", "E", "F"}

DigitValue(ch) == CHOOSE d \in 0..9 : DigitChars[d + 1] = ch

IsDigits(s) == \A i \in 1..Len(s) : \E d \in 1..10 : DigitChars[d] = s[i]

RECURSIVE DigitsToNat(_)
DigitsToNat(s) ==
    IF Len(s) = 0 THEN 0
    ELSE 10 * DigitsToNat(SubSeq(s, 1, Len(s) - 1)) + DigitValue(s[Len(s)])

\* BigInt(string): the empty string is 0n, an optionally signed run of
\* decimal digits is its value, anything else throws a SyntaxError
BigIntParse(s) ==
    IF Len(s) = 0 THEN [ok |-> TRUE, val |-> 0]
    ELSE IF s[1] \in {"-", "+"} THEN
        IF Len(s) > 1 /\ IsDigits(Tail(s))
        THEN [ok |-> TRUE,
              val |-> IF s[1] = "-" THEN 0 - DigitsToNat(Tail(s))
                                   ELSE DigitsToNat(Tail(s))]
        ELSE [ok |-> FALSE, val |-> 0]
    ELSE IF IsDigits(s) THEN [ok |-> TRUE, val |-> DigitsToNat(s)]
    ELSE [ok |-> FALSE, val |-> 0]

RECURSIVE NatToString(_)
NatToString(n) ==
    IF n < 10 THEN <<DigitChars[n + 1]>>
    ELSE NatToString(n \div 10) \o <<DigitChars[(n % 10) + 1]>>

\* bigint.toString(): canonical decimal, "-" for negatives
BigIntToString(n) == IF n < 0 THEN <<"-">> \o NatToString(0 - n) ELSE NatToString(n)

(***************************************************************************)
(* bigint values too wide for the checker's integers are kept as their     *)
(* canonical decimal text (bigint.toString()): a sequence of digit         *)
(* characters without leading zeros, "-" in front of a negative value      *)
(***************************************************************************)
\* s.repeat-style run of n characters ch
Repeat(ch, n) == [i \in 1..n |-> ch]

\* s.padEnd(n, "0")
PadEnd(s, n) == IF Len(s) >= n THEN s ELSE s \o Repeat("0", n - Len(s))

\* s.padStart(n, "0")
PadStart(s, n) == IF Len(s) >= n THEN s ELSE Repeat("0", n - Len(s)) \o s

\* s.replace(/(0+)$/, ""): the text without its trailing zeros
TrimTrailingZeros(s) ==
    LET kept == {i \in 1..Len(s) : s[i] # "0"}
    IN  IF kept = {} THEN <<>>
        ELSE SubSeq(s, 1, CHOOSE i \in kept : \A j \in kept : j <= i)

\* the digits of a natural number without leading zeros ("0" for zero)
RECURSIVE StripLeadingZeros(_)
StripLeadingZeros(s) ==
    IF Len(s) = 0 THEN <<"0">>
    ELSE IF s[1] = "0" /\ Len(s) > 1 THEN StripLeadingZeros(Tail(s))
    ELSE s

\* BigInt(text) for an optionally "-"-signed run of digits (the empty run is 0n)
BigIntOfDigits(negative, digits) ==
    LET d == StripLeadingZeros(digits)
    IN  IF negative /\ d # <<"0">> THEN <<"-">> \o d ELSE d

\* n + 1n on the digits of a natural number
RECURSIVE Increment(_)
Increment(s) ==
    IF Len(s) = 0 THEN <<"1">>
    ELSE IF s[Len(s)] = "9" THEN Increment(SubSeq(s, 1, Len(s) - 1)) \o <<"0">>
    ELSE SubSeq(s, 1, Len(s) - 1) \o <<DigitChars[DigitValue(s[Len(s)]) + 2]>>

\* a < b on the digits of two natural numbers without leading zeros
DigitsLess(a, b) ==
    \/ Len(a) < Len(b)
    \/ /\ Len(a) = Len(b)
       /\ \E i \in 1..Len(a) :
            /\ DigitValue(a[i]) < DigitValue(b[i])
            /\ \A j \in 1..(i - 1) : a[j] = b[j]

IsNegative(a) == Len(a) > 0 /\ a[1] = "-"

\* a < b on bigints
BigIntLess(a, b) ==
    IF IsNegative(a)
    THEN IF IsNegative(b) THEN DigitsLess(Tail(b), Tail(a)) ELSE TRUE
    ELSE IF IsNegative(b) THEN FALSE ELSE DigitsLess(a, b)

\* text.indexOf("."), 0 when there is none (positions count from 1)
IndexOfDot(s) ==
    IF \E i \in 1..Len(s) : s[i] = "."
    THEN CHOOSE i \in 1..Len(s) : s[i] = "." /\ \A j \in 1..(i - 1) : s[j] # "."
    ELSE 0

\* /^(-?)([0-9]*)\.?([0-9]*)$/.test(text)
IsDecimalNumber(s) ==
    LET unsigned == IF Len(s) > 0 /\ s[1] = "-" THEN Tail(s) ELSE s
        dot == IndexOfDot(unsigned)
    IN  IF dot = 0 THEN IsDigits(unsigned)
        ELSE /\ IsDigits(SubSeq(unsigned, 1, dot - 1))
             /\ IsDigits(SubSeq(unsigned, dot + 1, Len(unsigned)))

\* viem's parseUnits that cuts the fraction to the scale without padding it
parseUnits_unpadded(value, decimals) ==
    IF ~IsDecimalNumber(value) THEN [ok |-> FALSE, value |-> <<"0">>]
    ELSE
    LET negative == Len(value) > 0 /\ value[1] = "-"
        unsigned == IF negative THEN Tail(value) ELSE value
        dot == IndexOfDot(unsigned)
        integer == IF dot = 0 THEN unsigned ELSE SubSeq(unsigned, 1, dot - 1)
        fraction == IF dot = 0 THEN <<>> ELSE SubSeq(unsigned, dot + 1, Len(unsigned))
    IN  [ok |-> TRUE,
         value |-> BigIntOfDigits(negative,
                       integer \o SubSeq(fraction, 1, IF Len(fraction) < decimals
                                                       THEN Len(fraction) ELSE decimals))]

\* viem's parseUnits(value, decimals) for decimals > 0, as createTransferAuthorization,
\* buildCroTransaction and verifyCroPayment call it: the text must be a decimal
\* number (else it throws); the fraction loses its trailing zeros, is rounded
\* half up at the last kept digit when it is longer than the scale and padded
\* with zeros when it is shorter; the result is BigInt(sign + integer + fraction)
parseUnits(value, decimals) ==
    IF ~IsDecimalNumber(value) THEN [ok |-> FALSE, value |-> <<"0">>]
    ELSE
    LET negative == Len(value) > 0 /\ value[1] = "-"
        unsigned == IF negative THEN Tail(value) ELSE value
        dot == IndexOfDot(unsigned)
        integer == IF dot = 0 THEN unsigned ELSE SubSeq(unsigned, 1, dot - 1)
        fraction == TrimTrailingZeros(IF dot = 0 THEN <<"0">>
                                      ELSE SubSeq(unsigned, dot + 1, Len(unsigned)))
    IN  IF Len(fraction) > decimals
        THEN LET left == SubSeq(fraction, 1, decimals - 1)
                 unit == fraction[decimals]
                 right == SubSeq(fraction, decimals + 1, Len(fraction))
                 \* Math.round(Number(unit + "." + right))
                 rounded == DigitValue(unit) + (IF DigitValue(right[1]) >= 5 THEN 1 ELSE 0)
                 carried == IF rounded > 9
                            THEN PadStart((IF Len(left) = 0 THEN <<"1">>
                                           ELSE StripLeadingZeros(Increment(left)))
                                          \o <<"0">>, Len(left) + 1)
                            ELSE left \o <<DigitChars[rounded + 1]>>
                 overflow == Len(carried) > decimals
             IN  [ok |-> TRUE,
                  value |-> BigIntOfDigits(negative,
                                (IF overflow THEN Increment(StripLeadingZeros(integer))
                                             ELSE integer)
                                \o SubSeq(IF overflow THEN Tail(carried) ELSE carried,
                                          1, decimals))]
        ELSE [ok |-> TRUE,
              value |-> BigIntOfDigits(negative, integer \o PadEnd(fraction, decimals))]

\* viem's formatUnits(value, decimals): the decimal text of value / 10^decimals
formatUnits(value, decimals) ==
    LET negative == IsNegative(value)
        display == PadStart(IF negative THEN Tail(value) ELSE value, decimals)
        integer == SubSeq(display, 1, Len(display) - decimals)
        fraction == TrimTrailingZeros(SubSeq(display, Len(display) - decimals + 1,
                                             Len(display)))
    IN  (IF negative THEN <<"-">> ELSE <<>>)
        \o (IF Len(integer) = 0 THEN <<"0">> ELSE integer)
        \o (IF Len(fraction) = 0 THEN <<>> ELSE <<".">> \o fraction)

(***************************************************************************)
(* cronos-constants.ts                                                     *)
(***************************************************************************)
CRONOS_NETWORK == [MAINNET |-> "cronos-mainnet", TESTNET |-> "cronos-testnet"]

USDC_ADDRESS == [MAINNET |-> "0xf951eC28187D9E5Ca673Da8FE6757E6f0Be5F77C",
                 TESTNET |-> "0xc01efAaF7C5C61bEbFAeb358E1161b537b8bC0e0"]

CRO_ADDRESS == "0x0000000000000000000000000000000000000000"

ENDPOINTS == [HEALTH |-> "/healthcheck", SUPPORTED |-> "/v2/x402/supported",
              VERIFY |-> "/v2/x402/verify", SETTLE |-> "/v2/x402/settle"]

getUsdcAddress(network) ==
    IF network = CRONOS_NETWORK.MAINNET THEN USDC_ADDRESS.MAINNET ELSE USDC_ADDRESS.TESTNET

isCronosNetwork(network) ==
    network = CRONOS_NETWORK.MAINNET \/ network = CRONOS_NETWORK.TESTNET

(***************************************************************************)
(* eip3009-signer.ts: validateTransferAuthorization                        *)
(***************************************************************************)
\* "0x" + 64 hex chars, the string length the validator compares with
NonceLength == 66

\* the validator with the time-window checks before the self-transfer check
validateTransferAuthorization_reordered(auth, t) ==
    IF auth.value <= 0
    THEN [valid |-> FALSE, error |-> "Transfer amount must be positive"]
    ELSE IF auth.validBefore <= t
    THEN [valid |-> FALSE, error |-> "Authorization has expired"]
    ELSE IF auth.validAfter > t
    THEN [valid |-> FALSE, error |-> "Authorization not yet valid"]
    ELSE IF auth.from = auth.to
    THEN [valid |-> FALSE, error |-> "Cannot transfer to self"]
    ELSE IF Len(auth.nonce) # NonceLength
    THEN [valid |-> FALSE, error |-> "Invalid nonce format"]
    ELSE [valid |-> TRUE, error |-> Undefined]

\* the validator with value < 0n in place of value <= 0n
validateTransferAuthorization_zeroOk(auth, t) ==
    IF auth.value < 0
    THEN [valid |-> FALSE, error |-> "Transfer amount must be positive"]
    ELSE IF auth.from = auth.to
    THEN [valid |-> FALSE, error |-> "Cannot transfer to self"]
    ELSE IF auth.validBefore <= t
    THEN [valid |-> FALSE, error |-> "Authorization has expired"]
    ELSE IF auth.validAfter > t
    THEN [valid |-> FALSE, error |-> "Authorization not yet valid"]
    ELSE IF Len(auth.nonce) # NonceLength
    THEN [valid |-> FALSE, error |-> "Invalid nonce format"]
    ELSE [valid |-> TRUE, error |-> Undefined]

\* the validator without the self-transfer check
validateTransferAuthorization_noSelf(auth, t) ==
    IF auth.value <= 0
    THEN [valid |-> FALSE, error |-> "Transfer amount must be positive"]
    ELSE IF auth.validBefore <= t
    THEN [valid |-> FALSE, error |-> "Authorization has expired"]
    ELSE IF auth.validAfter > t
    THEN [valid |-> FALSE, error |-> "Authorization not yet valid"]
    ELSE IF Len(auth.nonce) # NonceLength
    THEN [valid |-> FALSE, error |-> "Invalid nonce format"]
    ELSE [valid |-> TRUE, error |-> Undefined]

\* the validator with validBefore < now in place of validBefore <= now
validateTransferAuthorization_lateExpiry(auth, t) ==
    IF auth.value <= 0
    THEN [valid |-> FALSE, error |-> "Transfer amount must be positive"]
    ELSE IF auth.from = auth.to
    THEN [valid |-> FALSE, error |-> "Cannot transfer to self"]
    ELSE IF auth.validBefore < t
    THEN [valid |-> FALSE, error |-> "Authorization has expired"]
    ELSE IF auth.validAfter > t
    THEN [valid |-> FALSE, error |-> "Authorization not yet valid"]
    ELSE IF Len(auth.nonce) # NonceLength
    THEN [valid |-> FALSE, error |-> "Invalid nonce format"]
    ELSE [valid |-> TRUE, error |-> Undefined]

\* t is BigInt(Math.floor(Date.now() / 1000)) read inside the function
validateTransferAuthorization(auth, t) ==
    IF auth.value <= 0
    THEN [valid |-> FALSE, error |-> "Transfer amount must be positive"]
    ELSE IF auth.from = auth.to
    THEN [valid |-> FALSE, error |-> "Cannot transfer to self"]
    ELSE IF auth.validBefore <= t
    THEN [valid |-> FALSE, error |-> "Authorization has expired"]
    ELSE IF auth.validAfter > t
    THEN [valid |-> FALSE, error |-> "Authorization not yet valid"]
    ELSE IF Len(auth.nonce) # NonceLength
    THEN [valid |-> FALSE, error |-> "Invalid nonce format"]
    ELSE [valid |-> TRUE, error |-> Undefined]

(***************************************************************************)
(* facilitator-client.ts: CronosFacilitatorClient                          *)
(***************************************************************************)
\* the message of an Error: the fixed text and the values interpolated in it
Msg(text, status, body, timeout) ==
    [text |-> text, status |-> status, body |-> body, timeout |-> timeout]

PlainMsg(text) == Msg(text, 0, "", 0)

\* a JSON object none of whose fields is present (an absent flag is falsy)
EmptyObject == [valid |-> FALSE, success |-> FALSE, reason |-> Undefined,
            verificationId |-> Undefined, txHash |-> Undefined, error |-> Undefined]

\* milliseconds: config.timeout || 30000
DefaultTimeout == 30000

\* constructor with the default (empty) config
CronosFacilitatorClient ==
    [baseUrl |-> "https://facilitator.cronoslabs.org",
     timeout |-> DefaultTimeout,
     headers |-> "Content-Type: application/json"]

\* the HTTP requests one call of the private fetch wrapper makes, with a retry
fetchSends_retry(request) == <<request, request>>

\* the HTTP requests one call of the private fetch wrapper makes: the single
\* "await fetch(url, ...)"; no loop, no retry in the catch block
fetchSends(request) == <<request>>

\* a fetch wrapper that skips the "!response.ok" test and parses every body
fetch_unchecked(client, outcome) ==
    IF outcome.kind \in {"ok", "status"}
    THEN [threw |-> FALSE, data |-> outcome.json, message |-> PlainMsg(Undefined)]
    ELSE [threw |-> TRUE, data |-> EmptyObject, message |-> PlainMsg(outcome.text)]

\* a fetch wrapper that reports an abort like any other failed fetch
fetch_plainAbort(client, outcome) ==
    IF outcome.kind = "ok"
    THEN [threw |-> FALSE, data |-> outcome.json, message |-> PlainMsg(Undefined)]
    ELSE IF outcome.kind = "status"
    THEN [threw |-> TRUE, data |-> EmptyObject,
          message |-> Msg("Facilitator API error", outcome.status,
                          IF outcome.textOk THEN outcome.text ELSE "Unknown error", 0)]
    ELSE [threw |-> TRUE, data |-> EmptyObject,
          message |-> PlainMsg("Unknown error communicating with facilitator")]

\* the private fetch wrapper applied to what the transport delivers:
\*   "ok"     a response with response.ok whose body parses to outcome.json
\*   "parse"  a response with response.ok whose response.json() rejects
\*   "status" a response with !response.ok (status, text; textOk = text() resolved)
\*   "abort"  the timer fired and controller.abort() rejected fetch with AbortError
\*   "error"  fetch rejected with an Error (connection failure)
\*   "thrown" fetch rejected with a value that is not an Error
\* the result is the value returned or the Error thrown
fetch(client, outcome) ==
    IF outcome.kind = "ok"
    THEN [threw |-> FALSE, data |-> outcome.json, message |-> PlainMsg(Undefined)]
    ELSE IF outcome.kind = "status"
    THEN [threw |-> TRUE, data |-> EmptyObject,
          message |-> Msg("Facilitator API error", outcome.status,
                          IF outcome.textOk THEN outcome.text ELSE "Unknown error", 0)]
    ELSE IF outcome.kind = "abort"
    THEN [threw |-> TRUE, data |-> EmptyObject,
          message |-> Msg("Facilitator request timeout after", 0, "", client.timeout)]
    ELSE IF outcome.kind \in {"error", "parse"}
    THEN [threw |-> TRUE, data |-> EmptyObject, message |-> PlainMsg(outcome.text)]
    ELSE [threw |-> TRUE, data |-> EmptyObject,
          message |-> PlainMsg("Unknown error communicating with facilitator")]

\* the request healthCheck sends: GET /healthcheck, no body
healthCheckRequest ==
    [endpoint |-> ENDPOINTS.HEALTH, method |-> "GET",
     network |-> Undefined, token |-> Undefined, from |-> Undefined, to |-> Undefined,
     value |-> <<>>, validAfter |-> <<>>, validBefore |-> <<>>,
     nonce |-> <<>>, signature |-> Undefined, verificationId |-> Undefined]

\* the request getSupportedNetworks sends: GET /v2/x402/supported, no body
getSupportedNetworksRequest ==
    [healthCheckRequest EXCEPT !.endpoint = ENDPOINTS.SUPPORTED]

\* the request verifyPayment sends: endpoint, method and JSON body
verifyPaymentRequest(request) ==
    [endpoint |-> ENDPOINTS.VERIFY, method |-> "POST",
     network |-> request.network, token |-> request.token,
     from |-> request.authorization.from, to |-> request.authorization.to,
     value |-> BigIntToString(request.authorization.value),
     validAfter |-> BigIntToString(request.authorization.validAfter),
     validBefore |-> BigIntToString(request.authorization.validBefore),
     nonce |-> request.authorization.nonce,
     signature |-> request.authorization.signature,
     verificationId |-> Undefined]

settlePaymentRequest_noId(request) ==
    [verifyPaymentRequest(request) EXCEPT !.endpoint = ENDPOINTS.SETTLE]

\* the request settlePayment sends (JSON.stringify drops an undefined verificationId)
settlePaymentRequest(request) ==
    [endpoint |-> ENDPOINTS.SETTLE, method |-> "POST",
     network |-> request.network, token |-> request.token,
     from |-> request.authorization.from, to |-> request.authorization.to,
     value |-> BigIntToString(request.authorization.value),
     validAfter |-> BigIntToString(request.authorization.validAfter),
     validBefore |-> BigIntToString(request.authorization.validBefore),
     nonce |-> request.authorization.nonce,
     signature |-> request.authorization.signature,
     verificationId |-> request.verificationId]

\* verifyAndSettle that stops after verification
verifyAndSettle_afterVerify_never(verifyResult) ==
    [return |-> TRUE,
     value |-> [EmptyObject EXCEPT !.success = FALSE, !.error = "Verification failed",
                                   !.reason = verifyResult.reason]]

\* verifyAndSettle that settles whatever verifyPayment answered
verifyAndSettle_afterVerify_always(verifyResult) ==
    [return |-> FALSE, value |-> EmptyObject]

\* verifyAndSettle after "await this.verifyPayment(...)" returned verifyResult:
\* either it returns the failure value or it goes on to settlePayment
verifyAndSettle_afterVerify(verifyResult) ==
    IF ~verifyResult.valid
    THEN [return |-> TRUE,
          value |-> [EmptyObject EXCEPT !.success = FALSE,
                                    !.error = "Verification failed",
                                    !.reason = verifyResult.reason]]
    ELSE [return |-> FALSE, value |-> EmptyObject]

\* verifyAndSettle that reports only the flag and the hash of the settlement
verifyAndSettle_afterSettle_repacked(settleResult) ==
    [EmptyObject EXCEPT !.success = settleResult.success, !.txHash = settleResult.txHash]

\* verifyAndSettle after "await this.settlePayment(...)": return settleResult
verifyAndSettle_afterSettle(settleResult) == settleResult

(***************************************************************************)
(* payment-routes.ts: submitUsdcPayment                                    *)
(***************************************************************************)
NoAuthorization ==
    [from |-> Undefined, to |-> Undefined, value |-> 0, validAfter |-> 0,
     validBefore |-> 0, nonce |-> <<>>, signature |-> Undefined]

NoCall == [network |-> Undefined, token |-> Undefined, authorization |-> NoAuthorization]

NoValidation == [ran |-> FALSE, at |-> 0, valid |-> FALSE, error |-> Undefined]

\* the JSON answer of a route handler; status 0 = no answer yet
NoResponse ==
    [status |-> 0, success |-> FALSE, error |-> Undefined, errorNetwork |-> Undefined,
     reason |-> Undefined, txHash |-> Undefined, message |-> PlainMsg(Undefined),
     network |-> Undefined, explorerUrl |-> [base |-> Undefined, tx |-> Undefined]]

\* c.json(obj, status)
Json(status, fields) == [fields EXCEPT !.status = status]

\* SubmitUsdcPaymentSchema.safeParse(body).success
SubmitUsdcPaymentSchema(body) == body.hasAuthorization

getExplorerUrl(network, txHash) ==
    [base |-> IF network = "cronos-mainnet" THEN "https://cronoscan.com"
                                             ELSE "https://testnet.cronoscan.com",
     tx |-> txHash]

\* the handler's catch block
InternalServerError(message) ==
    Json(500, [NoResponse EXCEPT !.success = FALSE, !.error = "Internal server error",
                                 !.message = message])

\* the handler that submits to the facilitator without validating first
submitUsdcPayment_start_unvalidated(body, t) ==
    IF ~SubmitUsdcPaymentSchema(body)
    THEN [respond |-> TRUE, validation |-> NoValidation, call |-> NoCall,
          response |-> Json(400, [NoResponse EXCEPT !.error = "Invalid request body"])]
    ELSE IF ~isCronosNetwork(body.network)
    THEN [respond |-> TRUE, validation |-> NoValidation, call |-> NoCall,
          response |-> Json(400, [NoResponse EXCEPT
              !.error = "Unsupported network: ${network}. Must be cronos-mainnet or cronos-testnet",
              !.errorNetwork = body.network])]
    ELSE LET value == BigIntParse(body.authorization.value)
             validAfter == BigIntParse(body.authorization.validAfter)
             validBefore == BigIntParse(body.authorization.validBefore)
         IN  IF ~(value.ok /\ validAfter.ok /\ validBefore.ok)
             THEN [respond |-> TRUE, validation |-> NoValidation, call |-> NoCall,
                   response |-> InternalServerError(PlainMsg("SyntaxError: Cannot convert to a BigInt"))]
             ELSE LET auth == [from |-> body.authorization.from,
                               to |-> body.authorization.to,
                               value |-> value.val,
                               validAfter |-> validAfter.val,
                               validBefore |-> validBefore.val,
                               nonce |-> body.authorization.nonce,
                               signature |-> body.authorization.signature]
                      validation == validateTransferAuthorization(auth, t)
                  IN  [respond |-> FALSE,
                       validation |-> [ran |-> TRUE, at |-> t, valid |-> validation.valid,
                                       error |-> validation.error],
                       call |-> [network |-> body.network,
                                 token |-> getUsdcAddress(body.network),
                                 authorization |-> auth],
                       response |-> NoResponse]

\* submitUsdcPayment from its entry to "await facilitator.verifyAndSettle(...)":
\* either it answers (respond) or it calls verifyAndSettle with `call`
submitUsdcPayment_start(body, t) ==
    IF ~SubmitUsdcPaymentSchema(body)
    THEN [respond |-> TRUE, validation |-> NoValidation, call |-> NoCall,
          response |-> Json(400, [NoResponse EXCEPT !.error = "Invalid request body"])]
    ELSE IF ~isCronosNetwork(body.network)
    THEN [respond |-> TRUE, validation |-> NoValidation, call |-> NoCall,
          response |-> Json(400, [NoResponse EXCEPT
              !.error = "Unsupported network: ${network}. Must be cronos-mainnet or cronos-testnet",
              !.errorNetwork = body.network])]
    ELSE LET value == BigIntParse(body.authorization.value)
             validAfter == BigIntParse(body.authorization.validAfter)
             validBefore == BigIntParse(body.authorization.validBefore)
         IN  IF ~(value.ok /\ validAfter.ok /\ validBefore.ok)
             THEN [respond |-> TRUE, validation |-> NoValidation, call |-> NoCall,
                   response |-> InternalServerError(PlainMsg("SyntaxError: Cannot convert to a BigInt"))]
             ELSE LET auth == [from |-> body.authorization.from,
                               to |-> body.authorization.to,
                               value |-> value.val,
                               validAfter |-> validAfter.val,
                               validBefore |-> validBefore.val,
                               nonce |-> body.authorization.nonce,
                               signature |-> body.authorization.signature]
                      validation == validateTransferAuthorization(auth, t)
                  IN  IF ~validation.valid
                      THEN [respond |-> TRUE,
                            validation |-> [ran |-> TRUE, at |-> t, valid |-> FALSE,
                                            error |-> validation.error],
                            call |-> [network |-> body.network,
                                      token |-> getUsdcAddress(body.network),
                                      authorization |-> auth],
                            response |-> Json(400, [NoResponse EXCEPT
                                !.error = "Invalid authorization",
                                !.reason = validation.error])]
                      ELSE [respond |-> FALSE,
                            validation |-> [ran |-> TRUE, at |-> t, valid |-> TRUE,
                                            error |-> Undefined],
                            call |-> [network |-> body.network,
                                      token |-> getUsdcAddress(body.network),
                                      authorization |-> auth],
                            response |-> NoResponse]

\* the handler that looks at result.success only
submitUsdcPayment_finish_noHashCheck(network, vas) ==
    IF vas.threw THEN InternalServerError(vas.message)
    ELSE IF ~vas.value.success
    THEN Json(500, [NoResponse EXCEPT !.error = "Payment settlement failed",
                        !.reason = OrElse(vas.value.reason, vas.value.error)])
    ELSE Json(200, [NoResponse EXCEPT !.success = TRUE, !.txHash = vas.value.txHash,
                        !.message = PlainMsg("Payment settled successfully"),
                        !.network = network,
                        !.explorerUrl = getExplorerUrl(network, vas.value.txHash)])

\* submitUsdcPayment after "await facilitator.verifyAndSettle(...)" settled:
\* vas is what verifyAndSettle returned or threw
submitUsdcPayment_finish(network, vas) ==
    IF vas.threw THEN InternalServerError(vas.message)
    ELSE IF ~vas.value.success \/ IsFalsy(vas.value.txHash)
    THEN Json(500, [NoResponse EXCEPT !.error = "Payment settlement failed",
                        !.reason = OrElse(vas.value.reason, vas.value.error)])
    ELSE Json(200, [NoResponse EXCEPT !.success = TRUE, !.txHash = vas.value.txHash,
                        !.message = PlainMsg("Payment settled successfully"),
                        !.network = network,
                        !.explorerUrl = getExplorerUrl(network, vas.value.txHash)])

(***************************************************************************)
(* cro-payment (db/actions.ts 115-398): verifyCroPayment                   *)
(***************************************************************************)
CRO_METADATA == [NAME |-> "Cronos", DECIMALS |-> 18]

LowerOf(ch) ==
    CASE ch = "A" -> "a" [] ch = "B" -> "b" [] ch = "C" -> "c"
      [] ch = "D" -> "d" [] ch = "E" -> "e" [] ch = "F" -> "f"
      [] ch = "X" -> "x" [] OTHER -> ch

\* String.prototype.toLowerCase on the text of an address
toLowerCase(s) == [i \in 1..Len(s) |-> LowerOf(s[i])]

\* an absent transaction receipt (the result field "receipt" left out)
NoReceipt == [present |-> FALSE, status |-> Undefined, blockNumber |-> 0]

\* the interpolated parts of a reason text
Reason(text, expected, got) == [text |-> text, expected |-> expected, got |-> got]

NoReason == Reason(Undefined, Undefined, Undefined)

\* the object verifyCroPayment resolves to, absent fields at their defaults
NoVerification ==
    [settled |-> FALSE, valid |-> FALSE, txHash |-> Undefined, receipt |-> NoReceipt,
     error |-> Undefined, reason |-> NoReason]

\* a step of verifyCroPayment: it returns `value`, or it goes on
Return(value) == [return |-> TRUE, threw |-> Undefined, value |-> value]

GoOn == [return |-> FALSE, threw |-> Undefined, value |-> NoVerification]

\* the catch block of verifyCroPayment: whatever was thrown inside the try
\* becomes a returned {valid:false, error:"Verification failed", reason:message}
verifyCroPayment_catch(message) ==
    [return |-> TRUE, threw |-> message,
     value |-> [NoVerification EXCEPT !.error = "Verification failed",
                                      !.reason = Reason(message, Undefined, Undefined)]]

\* minConfirmations: number = 2 (default parameter, used when the argument is undefined)
verifyCroPayment_minConfirmations(arg) == IF arg.present THEN arg.n ELSE 2

\* what a chain query answers: a value, null, or a rejected promise
Answer(kind, value, message) == [kind |-> kind, value |-> value, message |-> message]

\* verifyCroPayment that does not look at the receipt's status
verifyCroPayment_afterReceipt_anyStatus(txHash, answer) ==
    IF answer.kind = "throws" THEN verifyCroPayment_catch(answer.message)
    ELSE IF answer.kind = "null"
    THEN Return([NoVerification EXCEPT !.error = "Transaction not found"])
    ELSE GoOn

\* verifyCroPayment after "await client.getTransactionReceipt({ hash: txHash })"
verifyCroPayment_afterReceipt(txHash, answer) ==
    IF answer.kind = "throws" THEN verifyCroPayment_catch(answer.message)
    ELSE IF answer.kind = "null"
    THEN Return([NoVerification EXCEPT !.error = "Transaction not found"])
    ELSE IF answer.value.status # "success"
    THEN Return([NoVerification EXCEPT
                    !.txHash = txHash, !.receipt = answer.value,
                    !.error = "Transaction failed",
                    !.reason = Reason("Transaction was reverted", Undefined, Undefined)])
    ELSE GoOn

\* the checks on the transaction, given how the recipient comparison came out
verifyCroPayment_checkTransaction(txHash, receipt, tx, sameRecipient, expected, amount) ==
    IF ~sameRecipient
    THEN Return([NoVerification EXCEPT
                    !.txHash = txHash, !.receipt = receipt,
                    !.error = "Invalid recipient",
                    !.reason = Reason("Expected ${expectedRecipient}, got ${tx.to}",
                                      expected,
                                      IF tx.toNull THEN <<"n", "u", "l", "l">> ELSE tx.to)])
    ELSE LET expectedValue == parseUnits(amount, CRO_METADATA.DECIMALS)
         IN  IF ~expectedValue.ok
             THEN verifyCroPayment_catch("Invalid decimal number")
             ELSE IF BigIntLess(tx.value, expectedValue.value)
             THEN Return([NoVerification EXCEPT
                    !.txHash = txHash, !.receipt = receipt,
                    !.error = "Insufficient amount",
                    !.reason = Reason("Expected ${} CRO, got ${} CRO",
                                      formatUnits(expectedValue.value, CRO_METADATA.DECIMALS),
                                      formatUnits(tx.value, CRO_METADATA.DECIMALS))])
             ELSE GoOn

\* verifyCroPayment that compares the recipient addresses letter for letter
verifyCroPayment_afterTransaction_exactCase(txHash, receipt, answer, expected, amount) ==
    IF answer.kind = "throws" THEN verifyCroPayment_catch(answer.message)
    ELSE IF answer.kind = "null"
    THEN Return([NoVerification EXCEPT !.txHash = txHash,
                                       !.error = "Transaction details not found"])
    ELSE verifyCroPayment_checkTransaction(txHash, receipt, answer.value,
             ~answer.value.toNull /\ answer.value.to = expected,
             expected, amount)

\* verifyCroPayment after "await client.getTransaction({ hash: txHash })":
\* tx.to?.toLowerCase() !== expectedRecipient.toLowerCase(), then the amount
verifyCroPayment_afterTransaction(txHash, receipt, answer, expected, amount) ==
    IF answer.kind = "throws" THEN verifyCroPayment_catch(answer.message)
    ELSE IF answer.kind = "null"
    THEN Return([NoVerification EXCEPT !.txHash = txHash,
                                       !.error = "Transaction details not found"])
    ELSE verifyCroPayment_checkTransaction(txHash, receipt, answer.value,
             ~answer.value.toNull
                 /\ toLowerCase(answer.value.to) = toLowerCase(expected),
             expected, amount)

\* verifyCroPayment that wants more confirmations than minConfirmations
verifyCroPayment_afterBlockNumber_strict(txHash, receipt, answer, minConfirmations) ==
    IF answer.kind = "throws" THEN verifyCroPayment_catch(answer.message)
    ELSE LET confirmations == answer.value - receipt.blockNumber
         IN  IF confirmations <= minConfirmations
             THEN Return([NoVerification EXCEPT
                    !.txHash = txHash, !.receipt = receipt,
                    !.error = "Insufficient confirmations",
                    !.reason = Reason("Transaction has ${} confirmations, need ${}",
                                      minConfirmations, confirmations)])
             ELSE Return([NoVerification EXCEPT !.valid = TRUE, !.txHash = txHash,
                                                !.receipt = receipt])

\* verifyCroPayment that accepts at the required depth and at no other
verifyCroPayment_afterBlockNumber_exact(txHash, receipt, answer, minConfirmations) ==
    IF answer.kind = "throws" THEN verifyCroPayment_catch(answer.message)
    ELSE LET confirmations == answer.value - receipt.blockNumber
         IN  IF confirmations # minConfirmations
             THEN Return([NoVerification EXCEPT
                    !.txHash = txHash, !.receipt = receipt,
                    !.error = "Insufficient confirmations",
                    !.reason = Reason("Transaction has ${} confirmations, need ${}",
                                      minConfirmations, confirmations)])
             ELSE Return([NoVerification EXCEPT !.valid = TRUE, !.txHash = txHash,
                                                !.receipt = receipt])

\* verifyCroPayment after "await client.getBlockNumber()"
verifyCroPayment_afterBlockNumber(txHash, receipt, answer, minConfirmations) ==
    IF answer.kind = "throws" THEN verifyCroPayment_catch(answer.message)
    ELSE LET confirmations == answer.value - receipt.blockNumber
         IN  IF confirmations < minConfirmations
             THEN Return([NoVerification EXCEPT
                    !.txHash = txHash, !.receipt = receipt,
                    !.error = "Insufficient confirmations",
                    !.reason = Reason("Transaction has ${} confirmations, need ${}",
                                      minConfirmations, confirmations)])
             ELSE Return([NoVerification EXCEPT !.valid = TRUE, !.txHash = txHash,
                                                !.receipt = receipt])

\* the chain queries one "await client.<query>(...)" statement makes, repeated
chainQuery_polled(name) == <<name, name>>

\* the chain queries one "await client.<query>(...)" statement makes
chainQuery(name) == <<name>>

(***************************************************************************)
(* payment-routes.ts: verifyCroPaymentEndpoint                             *)
(***************************************************************************)
\* an absent request body
NoCroBody ==
    [network |-> Undefined, txHash |-> Undefined, expectedRecipient |-> <<>>,
     expectedAmount |-> <<>>, minConfirmations |-> [present |-> FALSE, n |-> 0]]

NoCroCall == NoCroBody

\* VerifyCroPaymentSchema.safeParse(body): the four strings are required,
\* minConfirmations is optional with default 2
VerifyCroPaymentSchema(body) ==
    [success |-> body.network # Undefined /\ body.txHash # Undefined,
     data |-> [body EXCEPT !.minConfirmations =
                   [present |-> TRUE,
                    n |-> IF body.minConfirmations.present THEN body.minConfirmations.n
                                                              ELSE 2]]]

\* the JSON object the endpoint answers with: `fields` names the keys present
NoCroResponse ==
    [status |-> 0, fields |-> {}, valid |-> FALSE, success |-> FALSE, error |-> Undefined,
     errorNetwork |-> Undefined, reason |-> NoReason, txHash |-> Undefined,
     receipt |-> NoReceipt, message |-> Undefined, network |-> Undefined,
     explorerUrl |-> [base |-> Undefined, tx |-> Undefined]]

\* the endpoint that hands every network name to verifyCroPayment
verifyCroPaymentEndpoint_start_anyNetwork(body) ==
    LET parsed == VerifyCroPaymentSchema(body)
    IN  IF ~parsed.success
        THEN [respond |-> TRUE, call |-> NoCroCall,
              response |-> [NoCroResponse EXCEPT !.status = 400,
                                !.fields = {"success", "error", "details"},
                                !.error = "Invalid request body"]]
        ELSE [respond |-> FALSE, call |-> parsed.data, response |-> NoCroResponse]

\* verifyCroPaymentEndpoint up to its call of verifyCroPayment
verifyCroPaymentEndpoint_start(body) ==
    LET parsed == VerifyCroPaymentSchema(body)
    IN  IF ~parsed.success
        THEN [respond |-> TRUE, call |-> NoCroCall,
              response |-> [NoCroResponse EXCEPT !.status = 400,
                                !.fields = {"success", "error", "details"},
                                !.error = "Invalid request body"]]
        ELSE IF ~isCronosNetwork(parsed.data.network)
        THEN [respond |-> TRUE, call |-> NoCroCall,
              response |-> [NoCroResponse EXCEPT !.status = 400,
                                !.fields = {"success", "error"},
                                !.error = "Unsupported network: ${network}. Must be cronos-mainnet or cronos-testnet",
                                !.errorNetwork = parsed.data.network]]
        ELSE [respond |-> FALSE, call |-> parsed.data, response |-> NoCroResponse]

\* verifyCroPaymentEndpoint after "await verifyCroPayment(...)" resolved. The
\* success object holds the receipt, whose blockNumber is a bigint, so the
\* JSON.stringify inside c.json throws and the catch block answers
verifyCroPaymentEndpoint_finish(network, verification) ==
    IF ~verification.valid
    THEN [NoCroResponse EXCEPT !.status = 400,
              !.fields = {"valid", "error", "reason", "txHash"},
              !.error = OrElse(verification.error, "Payment verification failed"),
              !.reason = verification.reason, !.txHash = verification.txHash]
    ELSE IF verification.receipt.present
    THEN [NoCroResponse EXCEPT !.status = 500,
              !.fields = {"valid", "error", "message"},
              !.error = "Internal server error",
              !.message = "Do not know how to serialize a BigInt"]
    ELSE [NoCroResponse EXCEPT !.status = 200,
              !.fields = {"valid", "txHash", "receipt", "message", "network", "explorerUrl"},
              !.valid = TRUE, !.txHash = verification.txHash,
              !.message = "Payment verified successfully", !.network = network,
              !.explorerUrl = getExplorerUrl(network, verification.txHash)]

(***************************************************************************)
(* eip3009-signer (db/actions.ts 400-589) and cro-payment: the builders    *)
(***************************************************************************)
CRONOS_CHAIN_ID == [MAINNET |-> 25, TESTNET |-> 338]

getChainId(network) ==
    IF network = CRONOS_NETWORK.MAINNET THEN CRONOS_CHAIN_ID.MAINNET
                                        ELSE CRONOS_CHAIN_ID.TESTNET

\* the object a builder returns, the fields it does not set at their defaults
NoBuilt ==
    [from |-> Undefined, to |-> Undefined, value |-> <<"0">>, validAfter |-> 0,
     validBefore |-> 0, nonce |-> <<>>, chainId |-> 0, gasLimit |-> 0]

LowerHexChars ==
    <<"0", "1", "2", "3", "4", "5", "6", "7", "8", "9", "a", "b", "c", "d", "e", "f">>

\* n.toString(16) of a non-negative number or bigint: lowercase, no leading zeros
RECURSIVE toString16(_)
toString16(n) ==
    IF n < 16 THEN <<LowerHexChars[n + 1]>>
    ELSE toString16(n \div 16) \o <<LowerHexChars[(n % 16) + 1]>>

\* Array.from(randomBytes).map(b => b.toString(16).padStart(2, '0')).join('')
RECURSIVE randomHexOf(_)
randomHexOf(randomBytes) ==
    IF randomBytes = <<>> THEN <<>>
    ELSE PadStart(toString16(Head(randomBytes)), 2) \o randomHexOf(Tail(randomBytes))

generateNonce_unpadded(ms, randomBytes) ==
    <<"0", "x">> \o toString16(ms) \o randomHexOf(randomBytes)

\* generateNonce() when Date.now() reads ms and getRandomValues fills randomBytes:
\* "0x", the timestamp as 16 hex digits, then the 24 random bytes as hex
generateNonce(ms, randomBytes) ==
    <<"0", "x">> \o PadStart(toString16(ms), 16) \o randomHexOf(randomBytes)

createTransferAuthorization_noDefault(from, to, amount, validityWindow, t, nonce) ==
    LET value == parseUnits(amount, 6)
    IN  IF ~value.ok THEN [threw |-> TRUE, result |-> NoBuilt]
        ELSE [threw |-> FALSE,
              result |-> [NoBuilt EXCEPT
                  !.from = from, !.to = to, !.value = value.value, !.validAfter = 0,
                  !.validBefore = t + validityWindow.n, !.nonce = nonce]]

\* createTransferAuthorization(from, to, amount, validityWindow = 3600) at unix
\* second t; parseUnits may throw, nothing else is checked
createTransferAuthorization(from, to, amount, validityWindow, t, nonce) ==
    LET value == parseUnits(amount, 6)
    IN  IF ~value.ok THEN [threw |-> TRUE, result |-> NoBuilt]
        ELSE [threw |-> FALSE,
              result |-> [NoBuilt EXCEPT
                  !.from = from, !.to = to, !.value = value.value, !.validAfter = 0,
                  !.validBefore = t + (IF validityWindow.present THEN validityWindow.n
                                                                 ELSE 3600),
                  !.nonce = nonce]]

\* buildCroTransaction(from, to, amountCro, network)
buildCroTransaction(from, to, amountCro, network) ==
    LET value == parseUnits(amountCro, CRO_METADATA.DECIMALS)
    IN  IF ~value.ok THEN [threw |-> TRUE, result |-> NoBuilt]
        ELSE [threw |-> FALSE,
              result |-> [NoBuilt EXCEPT
                  !.from = from, !.to = to, !.value = value.value,
                  !.chainId = getChainId(network), !.gasLimit = 21000]]

USDC_METADATA == [NAME |-> "Bridged USDC (Stargate)", DECIMALS |-> 6, VERSION |-> "1"]

getUsdcEip712Domain_testnet(network) ==
    [name |-> USDC_METADATA.NAME, version |-> USDC_METADATA.VERSION,
     chainId |-> CRONOS_CHAIN_ID.TESTNET, verifyingContract |-> USDC_ADDRESS.TESTNET]

\* the EIP-712 domain of the stable asset on a network
getUsdcEip712Domain(network) ==
    [name |-> USDC_METADATA.NAME, version |-> USDC_METADATA.VERSION,
     chainId |-> getChainId(network), verifyingContract |-> getUsdcAddress(network)]

NoDomain ==
    [name |-> Undefined, version |-> Undefined, chainId |-> 0,
     verifyingContract |-> Undefined]

\* no signature made
NoSignature == [key |-> Undefined, domain |-> NoDomain, message |-> NoBuilt]

\* account.signTypedData({domain, types, primaryType, message}) of the account of
\* privateKey: the signature of the EIP-712 digest of domain and message.  The
\* digest and the signature scheme are taken as ideal: a signature stands for
\* exactly the key, the domain and the message it was made from
signTypedData(privateKey, domain, message) ==
    [key |-> privateKey, domain |-> domain, message |-> message]

\* signTransferAuthorization(authorization, privateKey, network): the
\* authorization with its signature under the network's domain
signTransferAuthorization(authorization, privateKey, network) ==
    [authorization |-> authorization,
     signature |-> signTypedData(privateKey, getUsdcEip712Domain(network), authorization)]

(***************************************************************************)
(* proxy/hooks: CronosPaymentStrategy                                      *)
(***************************************************************************)
\* the characters of the address constants, for toLowerCase
Text(address) ==
    CASE address = USDC_ADDRESS.MAINNET ->
           <<"0", "x", "f", "9", "5", "1", "e", "C", "2", "8", "1", "8", "7", "D", "9",
             "E", "5", "C", "a", "6", "7", "3", "D", "a", "8", "F", "E", "6", "7", "5",
             "7", "E", "6", "f", "0", "B", "e", "5", "F", "7", "7", "C">>
      [] address = USDC_ADDRESS.TESTNET ->
           <<"0", "x", "c", "0", "1", "e", "f", "A", "a", "F", "7", "C", "5", "C", "6",
             "1", "b", "E", "b", "F", "A", "e", "b", "3", "5", "8", "E", "1", "1", "6",
             "1", "b", "5", "3", "7", "b", "8", "b", "C", "0", "e", "0">>
      [] address = CRO_ADDRESS -> <<"0", "x">> \o Repeat("0", 40)

\* what a rejected database query carries
NoWallets == [threw |-> FALSE, rows |-> <<>>, message |-> Undefined]

\* select ... where userId = ? and isActive = true order by isPrimary desc,
\* createdAt desc over the user's rows (kept newest first)
getWalletsByUser(db) ==
    IF db.fails THEN [NoWallets EXCEPT !.threw = TRUE, !.message = db.message]
    ELSE LET active == SelectSeq(db.rows, LAMBDA w : w.isActive)
         IN  [NoWallets EXCEPT
                 !.rows = SelectSeq(active, LAMBDA w : w.isPrimary)
                          \o SelectSeq(active, LAMBDA w : ~w.isPrimary)]

\* the same selection with limit 1; rows.length > 0
userHasWallets(db) ==
    IF db.fails THEN [threw |-> TRUE, value |-> FALSE, message |-> db.message]
    ELSE [threw |-> FALSE, message |-> Undefined,
          value |-> Len(SelectSeq(db.rows, LAMBDA w : w.isActive)) > 0]

canSign_anyAsset(db, requirement) ==
    LET hasWallets == userHasWallets(db)
    IN  IF hasWallets.threw THEN hasWallets
        ELSE [hasWallets EXCEPT
                 !.value = hasWallets.value /\ isCronosNetwork(requirement.network)]

\* CronosPaymentStrategy.canSign(context): the promise's outcome
canSign(db, requirement) ==
    LET hasWallets == userHasWallets(db)
        network == requirement.network
        asset == requirement.asset
        usdcAddress == getUsdcAddress(network)
        isUsdc == toLowerCase(asset) = toLowerCase(Text(usdcAddress))
        isCro == \/ asset = Text(CRO_ADDRESS)
                 \/ asset = <<"0", "x", "0">>
                 \/ toLowerCase(asset) = toLowerCase(Text(CRO_ADDRESS))
    IN  IF hasWallets.threw THEN hasWallets
        ELSE IF ~hasWallets.value THEN [hasWallets EXCEPT !.value = FALSE]
        ELSE IF ~isCronosNetwork(network) THEN [hasWallets EXCEPT !.value = FALSE]
        ELSE [hasWallets EXCEPT !.value = isUsdc \/ isCro]

\* a PaymentSigningResult none of whose fields is set
NoSigningResult == [success |-> FALSE, error |-> Undefined, walletAddress |-> Undefined]

signUsdcPayment_signed(network, amount, recipient, sender) ==
    [NoSigningResult EXCEPT !.success = TRUE, !.walletAddress = sender]

\* CronosPaymentStrategy.signUsdcPayment: wallet signing is not implemented
signUsdcPayment(network, amount, recipient, sender) ==
    [NoSigningResult EXCEPT
        !.error = "USDC.e payment signing requires wallet integration (coming soon). Please use the web interface with MetaMask or Crypto.com Wallet.",
        !.walletAddress = sender]

\* CronosPaymentStrategy.signPayment(context): what the promise resolves to
signPayment(db, requirement) ==
    LET wallets == getWalletsByUser(db)
        network == requirement.network
        asset == requirement.asset
        usdcAddress == getUsdcAddress(network)
        isUsdc == toLowerCase(asset) = toLowerCase(Text(usdcAddress))
    IN  IF wallets.threw THEN [NoSigningResult EXCEPT !.error = wallets.message]
        ELSE IF Len(wallets.rows) = 0
        THEN [NoSigningResult EXCEPT
                 !.error = "No wallet connected. Please connect a Cronos wallet."]
        ELSE IF isUsdc
        THEN signUsdcPayment(network, requirement.maxAmountRequired, requirement.payTo,
                             wallets.rows[1].walletAddress)
        ELSE [NoSigningResult EXCEPT
                 !.error = "Native CRO payments require wallet client (MetaMask, etc.). Please use the web interface to complete this payment.",
                 !.walletAddress = wallets.rows[1].walletAddress]

(***************************************************************************)
(* facilitator-client.ts: createFacilitatorClient, getFacilitatorClient    *)
(***************************************************************************)
\* "let defaultClient: CronosFacilitatorClient | null = null"; a reference to
\* an instance is its position in the heap, so two references are the same
\* object exactly when they are equal
Null == 0

\* createFacilitatorClient(): the config argument left out
NoConfig == [baseUrl |-> Undefined, timeout |-> 0]

\* new CronosFacilitatorClient(config), for a config without a headers entry:
\* config.baseUrl || BASE_URL, config.timeout || 30000
CronosFacilitatorClient_constructor(config) ==
    [baseUrl |-> OrElse(config.baseUrl, CronosFacilitatorClient.baseUrl),
     timeout |-> IF config.timeout = 0 THEN DefaultTimeout ELSE config.timeout,
     headers |-> CronosFacilitatorClient.headers]

\* createFacilitatorClient: a new instance on the heap, and the reference to it
createFacilitatorClient(h, config) ==
    [heap |-> Append(h, CronosFacilitatorClient_constructor(config)), ref |-> Len(h) + 1]

\* a getFacilitatorClient that constructs a client on every call
getFacilitatorClient_fresh(h, dc) ==
    LET c == createFacilitatorClient(h, NoConfig)
    IN  [heap |-> c.heap, defaultClient |-> c.ref, ref |-> c.ref]

\* getFacilitatorClient: "if (!defaultClient) defaultClient =
\* createFacilitatorClient(); return defaultClient"
getFacilitatorClient(h, dc) ==
    IF dc = Null
    THEN LET c == createFacilitatorClient(h, NoConfig)
         IN  [heap |-> c.heap, defaultClient |-> c.ref, ref |-> c.ref]
    ELSE [heap |-> h, defaultClient |-> dc, ref |-> dc]

(***************************************************************************)
(* payment-routes.ts: checkFacilitatorHealth                               *)
(***************************************************************************)
\* a field of a JSON object that may be absent
Absent == [present |-> FALSE, value |-> FALSE]

\* no answer of checkFacilitatorHealth yet
NoHealthResponse ==
    [status |-> 0, healthy |-> FALSE, serviceStatus |-> Undefined, timestamp |-> 0,
     error |-> PlainMsg(Undefined)]

\* checkFacilitatorHealth after "await facilitator.healthCheck()": the object
\* literal {healthy: health.status === 'healthy', ...health} takes every own
\* field of the parsed body after the computed one, so a healthy field of the
\* body replaces it; the catch block answers 503 (the client throws Errors
\* only, so error is always error.message)
checkFacilitatorHealth_afterHealthCheck(result) ==
    IF ~result.threw
    THEN [status |-> 200,
          healthy |-> IF result.data.healthy.present
                      THEN result.data.healthy.value
                      ELSE result.data.status = "healthy",
          serviceStatus |-> result.data.status,
          timestamp |-> result.data.timestamp,
          error |-> PlainMsg(Undefined)]
    ELSE [status |-> 503, healthy |-> FALSE, serviceStatus |-> "unhealthy",
          timestamp |-> 0, error |-> result.message]

(***************************************************************************)
(* cro-payment (db/actions.ts 238-258): validateCroTransaction             *)
(***************************************************************************)
\* validateCroTransaction that looks for the zero address before the self-transfer
validateCroTransaction_zeroFirst(transaction) ==
    IF transaction.value <= 0
    THEN [valid |-> FALSE, error |-> "Transfer amount must be positive"]
    ELSE IF transaction.to = Text(CRO_ADDRESS)
    THEN [valid |-> FALSE, error |-> "Cannot transfer to zero address"]
    ELSE IF toLowerCase(transaction.from) = toLowerCase(transaction.to)
    THEN [valid |-> FALSE, error |-> "Cannot transfer to self"]
    ELSE [valid |-> TRUE, error |-> Undefined]

\* validateCroTransaction: value <= 0n, then from.toLowerCase() ===
\* to.toLowerCase(), then to === CRO_ADDRESS; {valid: true} has no error field
validateCroTransaction(transaction) ==
    IF transaction.value <= 0
    THEN [valid |-> FALSE, error |-> "Transfer amount must be positive"]
    ELSE IF toLowerCase(transaction.from) = toLowerCase(transaction.to)
    THEN [valid |-> FALSE, error |-> "Cannot transfer to self"]
    ELSE IF transaction.to = Text(CRO_ADDRESS)
    THEN [valid |-> FALSE, error |-> "Cannot transfer to zero address"]
    ELSE [valid |-> TRUE, error |-> Undefined]

(***************************************************************************)
(* Inputs: what callers and the settlement service can send                *)
(***************************************************************************)
PAYER == "0xf39Fd6e51aad88F6F4ce6aB8827279cffFb92266"
PAYER_LOWER == "0xf39fd6e51aad88f6f4ce6ab8827279cfffb92266"
RECIPIENT == "0x742D35cC6634C0532925A3b844bc9E7595f0BEb8"

Hex64(ch) == [i \in 1..64 |-> ch]

\* 32 bytes
NONCE_OK == <<"0", "x">> \o Hex64("a")
\* '0x123', the nonce of the unit test
NONCE_SHORT == <<"0", "x", "1", "2", "3">>
\* 33 bytes
NONCE_LONG == <<"0", "x">> \o Hex64("a") \o <<"0", "0">>
\* 66 characters that are not hex digits
NONCE_NOT_HEX == <<"0", "x">> \o Hex64("z")

Nonces == {NONCE_OK, NONCE_SHORT, NONCE_LONG, NONCE_NOT_HEX}
FromAddresses == {PAYER, RECIPIENT}
ToAddresses == {PAYER, PAYER_LOWER, RECIPIENT, CRO_ADDRESS}
Values == -1..MaxValue
Timestamps == 0..(MaxNow + 1)
Networks == {"cronos-mainnet", "cronos-testnet", "ethereum"}
SIGNATURE == "0xsignature"

\* authorizations handed to validateTransferAuthorization directly
Authorizations ==
    [from : FromAddresses, to : ToAddresses, value : Values, validAfter : Timestamps,
     validBefore : Timestamps, nonce : Nonces, signature : {SIGNATURE}]

\* authorizations handed to verifyAndSettle directly (it does not validate)
ClientAuthorizations ==
    [from : {PAYER}, to : {RECIPIENT, CRO_ADDRESS}, value : Values, validAfter : {0},
     validBefore : Timestamps, nonce : {NONCE_OK, NONCE_SHORT}, signature : {SIGNATURE}]

\* the strings a request body can carry in the integer fields
ValueStrings == {BigIntToString(v) : v \in Values} \cup {<<>>, <<"1", ".", "5">>}
TimeStrings == {BigIntToString(t) : t \in Timestamps}
ValidBeforeStrings == TimeStrings \cup {<<"+", "1">>, <<"s", "o", "o", "n">>}

NoBody ==
    [hasAuthorization |-> FALSE, network |-> Undefined,
     authorization |-> [from |-> Undefined, to |-> Undefined, value |-> <<>>,
                        validAfter |-> <<>>, validBefore |-> <<>>, nonce |-> <<>>,
                        signature |-> Undefined]]

Bodies ==
    [hasAuthorization : {TRUE}, network : Networks,
     authorization : [from : FromAddresses, to : ToAddresses, value : ValueStrings,
                      validAfter : TimeStrings, validBefore : ValidBeforeStrings,
                      nonce : Nonces, signature : {SIGNATURE}]]
    \cup {[NoBody EXCEPT !.network = n] : n \in Networks}

TX_HASH == "0x1234567890abcdef1234567890abcdef1234567890abcdef1234567890abcdef"

\* bodies of 2xx answers of POST /v2/x402/verify
VerifyPaymentResponses ==
    {[EmptyObject EXCEPT !.valid = TRUE, !.verificationId = id] :
        id \in {Undefined, "verify_123"}}
    \cup {[EmptyObject EXCEPT !.valid = FALSE, !.reason = r] :
        r \in {Undefined, "Invalid signature"}}

\* bodies of 2xx answers of POST /v2/x402/settle
SettlePaymentResponses ==
    {[EmptyObject EXCEPT !.success = TRUE, !.txHash = h] : h \in {Undefined, "", TX_HASH}}
    \cup {[EmptyObject EXCEPT !.success = FALSE, !.error = e, !.reason = r, !.txHash = h] :
        e \in {Undefined, "Settlement failed"}, r \in {Undefined, "Insufficient balance"},
        h \in {Undefined, TX_HASH}}

Outcome(kind, status, text, textOk, json) ==
    [kind |-> kind, status |-> status, text |-> text, textOk |-> textOk, json |-> json]

\* the timer fired first: controller.abort() rejects the fetch with AbortError
Aborted == Outcome("abort", 0, "", TRUE, EmptyObject)

TransportFailures ==
    {Outcome("status", 500, "Internal server error", ok, EmptyObject) : ok \in BOOLEAN}
    \cup {Outcome("status", 404, "Not found", TRUE, EmptyObject),
          Outcome("parse", 200, "Unexpected end of JSON input", TRUE, EmptyObject),
          Aborted,
          Outcome("error", 0, "Failed to fetch", TRUE, EmptyObject),
          Outcome("thrown", 0, "", TRUE, EmptyObject)}

VerifyOutcomes ==
    {Outcome("ok", 200, "", TRUE, j) : j \in VerifyPaymentResponses} \cup TransportFailures

SettleOutcomes ==
    {Outcome("ok", 200, "", TRUE, j) : j \in SettlePaymentResponses} \cup TransportFailures

\* bodies of 2xx answers of GET /healthcheck
HealthCheckResponses ==
    {[status |-> st, timestamp |-> 1704067200] : st \in {"healthy", "unhealthy"}}

HealthOutcomes ==
    {Outcome("ok", 200, "", TRUE, j) : j \in HealthCheckResponses} \cup TransportFailures

\* bodies of 2xx answers of GET /v2/x402/supported
SupportedNetworksResponses ==
    {[networks |-> ns] : ns \in {<<>>, <<CRONOS_NETWORK.MAINNET, CRONOS_NETWORK.TESTNET>>}}

SupportedOutcomes ==
    {Outcome("ok", 200, "", TRUE, j) : j \in SupportedNetworksResponses}
    \cup TransportFailures

OutcomesOf(op) ==
    CASE op = "verify" -> VerifyOutcomes
      [] op = "settle" -> SettleOutcomes
      [] op = "health" -> HealthOutcomes
      [] OTHER -> SupportedOutcomes

\* addresses of the direct path, as text
CRO_RECIPIENT ==
    <<"0", "x", "7", "4", "2", "D", "3", "5", "c", "C", "6", "6", "3", "4",
      "C", "0", "5", "3", "2", "9", "2", "5", "A", "3", "b", "8", "4", "4",
      "b", "c", "9", "E", "7", "5", "9", "5", "f", "0", "B", "E", "b", "8">>
CRO_RECIPIENT_LOWER == toLowerCase(CRO_RECIPIENT)
CRO_STRANGER ==
    <<"0", "x", "f", "3", "9", "F", "d", "6", "e", "5", "1", "a", "a", "d",
      "8", "8", "F", "6", "F", "4", "c", "e", "6", "a", "B", "8", "8", "2",
      "7", "2", "7", "9", "c", "f", "f", "F", "b", "9", "2", "2", "6", "6">>

\* 1 CRO, one wei less, and 2 CRO, in wei
ONE_CRO == <<"1">> \o Repeat("0", 18)
ONE_CRO_LESS_A_WEI == Repeat("9", 18)
TWO_CRO == <<"2">> \o Repeat("0", 18)

\* expectedAmount texts: "1", "1.0", "0.5" and one that is no decimal number
ExpectedAmounts == {<<"1">>, <<"1", ".", "0">>, <<"0", ".", "5">>, <<"a", "b", "c">>}

\* minConfirmations arguments: left out, or a number
MinConfirmations ==
    {[present |-> FALSE, n |-> 0]} \cup {[present |-> TRUE, n |-> n] : n \in {0, 3}}

\* arguments of verifyCroPayment
CroCalls ==
    [network : {CRONOS_NETWORK.MAINNET, CRONOS_NETWORK.TESTNET}, txHash : {TX_HASH},
     expectedRecipient : {CRO_RECIPIENT}, expectedAmount : ExpectedAmounts,
     minConfirmations : MinConfirmations]

\* bodies of POST /api/payment/cro/verify
CroBodies ==
    [network : Networks, txHash : {TX_HASH},
     expectedRecipient : {CRO_RECIPIENT}, expectedAmount : {<<"1">>},
     minConfirmations : MinConfirmations]
    \cup {[NoCroBody EXCEPT !.network = n] : n \in Networks}

\* what the chain holds for the hash: no receipt, or a receipt in block 1 or 2
Receipts ==
    {[present |-> FALSE, status |-> Undefined, blockNumber |-> 0]}
    \cup [present : {TRUE}, status : {"success", "reverted"}, blockNumber : {1, 2}]

NoTransaction == [present |-> FALSE, toNull |-> TRUE, to |-> <<>>, value |-> <<"0">>]

\* ... no transaction, or a transfer (to is null for a contract creation)
Transactions ==
    {NoTransaction}
    \cup [present : {TRUE}, toNull : {FALSE},
          to : {CRO_RECIPIENT, CRO_RECIPIENT_LOWER, CRO_STRANGER},
          value : {ONE_CRO_LESS_A_WEI, ONE_CRO, TWO_CRO}]
    \cup {[present |-> TRUE, toNull |-> TRUE, to |-> <<>>, value |-> ONE_CRO]}

NoChain == [receipt |-> NoReceipt, tx |-> NoTransaction, head |-> 0]

\* the states of the chain an invocation can meet
Chains == [receipt : Receipts, tx : Transactions, head : 0..MaxHead]

\* the ways a chain query is rejected: the RPC request failed, or the client
\* library raises "not found" itself instead of answering null
QueryFailures(found, none) ==
    {Answer("throws", none, "HTTP request failed.")}
    \cup IF found THEN {} ELSE {Answer("throws", none, "could not be found")}

\* the answers of getTransactionReceipt, getTransaction and getBlockNumber
ReceiptAnswers(c) ==
    {IF c.receipt.present THEN Answer("value", c.receipt, Undefined)
                          ELSE Answer("null", NoReceipt, Undefined)}
    \cup QueryFailures(c.receipt.present, NoReceipt)

TransactionAnswers(c) ==
    {IF c.tx.present THEN Answer("value", c.tx, Undefined)
                     ELSE Answer("null", NoTransaction, Undefined)}
    \cup QueryFailures(c.tx.present, NoTransaction)

BlockNumberAnswers(c) == {Answer("value", c.head, Undefined)} \cup QueryFailures(TRUE, 0)

\* amount texts handed to the builders: the amounts of the unit tests, amounts
\* with the full number of decimals, with more decimals than the scale holds,
\* without an integer or a fraction part, zero, a negative one, and no number
UsdcAmounts ==
    {<<"1">>, <<"0", ".", "0", "1">>, <<"1", "0", "0">>, <<"0", ".", "0", "0", "1">>,
     <<"0", ".", "0", "0", "0", "0", "0", "1">>, <<"1", ".", "5", "0">>,
     <<"2", "1", "4", "7", ".", "4", "8", "3", "6", "4", "7">>,
     <<"0", "0", "7">>, <<".", "5">>, <<"3", ".">>, <<>>, <<"0">>, <<"-", "1">>,
     <<"0", ".", "0", "0", "0", "0", "0", "0", "5">>,
     <<"0", ".", "0", "0", "0", "0", "0", "0", "4">>,
     <<"1", ",", "5">>, <<"a", "b", "c">>}

CroAmounts ==
    {<<"1">>, <<"0", ".", "1">>, <<"0", ".", "0", "0", "1">>, <<"1", "0">>,
     <<"1", ".", "5">>, <<"0", ".">> \o Repeat("0", 17) \o <<"1">>,
     <<"1", "2", "3", "4", "5", "6", "7", "8", "9", "0", ".">> \o Repeat("9", 18),
     <<"0", ".">> \o Repeat("0", 18) \o <<"5">>, <<"0">>, <<"-", "1">>, <<"a", "b", "c">>}

\* validityWindow arguments: left out, or a number of seconds
ValidityWindows ==
    {[present |-> FALSE, n |-> 0]} \cup {[present |-> TRUE, n |-> n] : n \in {1, 60}}

\* addresses handed to the builders: the type Address is not checked at run time
NOT_AN_ADDRESS == "0x123"
BuilderAddresses == {PAYER, RECIPIENT, NOT_AN_ADDRESS}

\* the user's rows of the wallet table, newest first, or a failing database
Wallet(address, isActive, isPrimary) ==
    [walletAddress |-> address, isActive |-> isActive, isPrimary |-> isPrimary]

Databases ==
    {[fails |-> FALSE, message |-> Undefined, rows |-> rows] :
        rows \in {<<>>, <<Wallet(PAYER, FALSE, TRUE)>>, <<Wallet(PAYER, TRUE, FALSE)>>,
                  <<Wallet(PAYER, TRUE, FALSE), Wallet(RECIPIENT, TRUE, TRUE)>>}}
    \cup {[fails |-> TRUE, message |-> "connection refused", rows |-> <<>>]}

\* assets a payment requirement can name: the stable asset of either network as
\* published and in lower case, the native sentinel in its spellings, another
\* contract
STRANGER_ASSET == <<"0", "x">> \o Repeat("1", 40)
Assets ==
    {Text(USDC_ADDRESS.MAINNET), toLowerCase(Text(USDC_ADDRESS.MAINNET)),
     Text(USDC_ADDRESS.TESTNET), toLowerCase(Text(USDC_ADDRESS.TESTNET)),
     Text(CRO_ADDRESS), <<"0", "X">> \o Repeat("0", 40), <<"0", "x", "0">>,
     STRANGER_ASSET}

PaymentRequirements ==
    [network : Networks, asset : Assets, maxAmountRequired : {"0.01"},
     payTo : {RECIPIENT}]

\* private keys of signers: the key of the unit tests and another one
TEST_PRIVATE_KEY == "0xac0974bec39a17e36ba4a6b4d238ff944bacb478cbed5efcae784d7bf4f2ff80"
OTHER_PRIVATE_KEY == "0x59c6995e998f97a5a0044966f0945389dc9e86dae88c7a8412f4603b6b78690d"
PrivateKeys == {TEST_PRIVATE_KEY, OTHER_PRIVATE_KEY}

\* the milliseconds of Date.now() within the current second
Millis == {0, 999}

\* what crypto.getRandomValues(new Uint8Array(24)) fills in
RandomBytes == {[i \in 1..24 |-> 0], [i \in 1..24 |-> 255], [i \in 1..24 |-> (7 * i) % 256]}

\* config arguments of createFacilitatorClient: left out, or a local service
\* with a timeout of five seconds
Configs == {NoConfig, [baseUrl |-> "http://localhost:3000", timeout |-> 5000]}

\* bodies of 2xx answers of GET /healthcheck as checkFacilitatorHealth spreads
\* them: response.json() is returned unchecked, so the object can carry a
\* healthy field of its own next to those of HealthCheckResponse
HealthBodies ==
    [status : {"healthy", "unhealthy"}, timestamp : {1704067200},
     healthy : {Absent, [present |-> TRUE, value |-> TRUE],
                [present |-> TRUE, value |-> FALSE]}]

RouteHealthOutcomes ==
    {Outcome("ok", 200, "", TRUE, j) : j \in HealthBodies} \cup TransportFailures

\* arguments of validateCroTransaction: sender and recipient in either letter
\* case and the zero address, value below, at and above zero
CroTransactions ==
    [from : {CRO_STRANGER, toLowerCase(CRO_STRANGER), Text(CRO_ADDRESS)},
     to : {CRO_RECIPIENT, CRO_STRANGER, Text(CRO_ADDRESS)},
     value : {-1, 0, 1}]

\* a payment as its block is added: a receipt, its transaction, and the head
\* at the receipt's block
MinedPayments ==
    {c \in Chains : c.receipt.present /\ c.tx.present /\ c.head = c.receipt.blockNumber}

\* the arguments with which the payment on the ledger is verified
WatchCalls ==
    [network : {CRONOS_NETWORK.TESTNET}, txHash : {TX_HASH},
     expectedRecipient : {CRO_RECIPIENT}, expectedAmount : {<<"1">>, <<"0", ".", "5">>},
     minConfirmations : MinConfirmations]

(***************************************************************************)
(* State                                                                   *)
(***************************************************************************)
VARIABLES
    now,           \* Math.floor(Date.now() / 1000)
    pc,            \* "idle", the client call in flight ("verify", "settle",
                   \* "health", "supported"), "done"
    caller,        \* who started the operation: "route", "client", "validator"
    body,          \* the request body submitUsdcPayment received
    call,          \* the arguments of the verifyAndSettle invocation
    validation,    \* what validateTransferAuthorization returned, and when
    requests,      \* the HTTP requests sent to the facilitator, in order
    trace,         \* the I/O events of the invocation, in order
    verifyResult,  \* what verifyPayment returned or threw
    settleResult,  \* what settlePayment returned or threw
    vas,           \* what verifyAndSettle returned or threw
    response,      \* the answer of submitUsdcPayment
    timers,        \* armed and not yet cleared setTimeout timers
    wire,          \* the fetch in flight: its phase, what the transport delivers,
                   \* whether the timeout period has run out, whether abort() ran
    clientResult,  \* what healthCheck or getSupportedNetworks returned or threw
    croBody,       \* the request body verifyCroPaymentEndpoint received
    croCall,       \* the arguments of the verifyCroPayment invocation
    chain,         \* what the chain holds for the transaction hash, and its head
    queries,       \* the chain queries made by the invocation, in order
    thrown,        \* the message of what was thrown inside verifyCroPayment's try
    verification,  \* what verifyCroPayment resolved to
    croResponse,   \* the answer of verifyCroPaymentEndpoint
    built,         \* the last builder call: its arguments and what it returned
    strategy,      \* the last call of the payment strategy and what it returned
    client,        \* the fields of the shared client instance
    calls,         \* the concurrent invocations that use the shared client
    defaultClient, \* facilitator-client.ts "let defaultClient": Null or a reference
    heap,          \* the CronosFacilitatorClient instances constructed so far
    handles,       \* the references the factory functions returned, in order
    health,        \* the checkFacilitatorHealth request in progress and its answer
    croTx,         \* the last validateCroTransaction call and what it returned
    ledger,        \* the chain as blocks are added: the payment and the head
    watch          \* the caller that re-invokes verifyCroPayment on the ledger

\* the state of the delegated (facilitator) path
payVars == <<body, call, validation, requests, trace, verifyResult, settleResult, vas,
             response, timers, wire, clientResult>>

\* the state of the direct (on-chain) path
croVars == <<croBody, croCall, chain, queries, thrown, verification, croResponse>>

\* the default client instance and the calls in flight on it
sharedVars == <<client, calls>>

\* the module state of facilitator-client.ts and the stateless local calls
localVars == <<defaultClient, heap, handles, health, croTx>>

\* a payment on a chain whose head advances, and its watcher
chainVars == <<ledger, watch>>

\* what no action of the sequential request handling touches
otherVars == <<sharedVars, localVars, chainVars>>

vars == <<now, pc, caller, payVars, croVars, built, strategy, otherVars>>

\* no builder call yet
NotBuilt ==
    [op |-> "none", amount |-> <<>>, from |-> Undefined, to |-> Undefined,
     validityWindow |-> [present |-> FALSE, n |-> 0], at |-> 0, ms |-> 0,
     network |-> Undefined, key |-> Undefined, signature |-> NoSignature,
     threw |-> FALSE, result |-> NoBuilt]

\* no strategy call yet
NoStrategy ==
    [op |-> "none", db |-> [fails |-> FALSE, message |-> Undefined, rows |-> <<>>],
     network |-> Undefined, asset |-> <<>>, threw |-> FALSE, value |-> FALSE,
     result |-> NoSigningResult]

NoResult ==
    [settled |-> FALSE, threw |-> FALSE, value |-> EmptyObject,
     message |-> PlainMsg(Undefined)]

Settled(r) == [settled |-> TRUE, threw |-> r.threw, value |-> r.data, message |-> r.message]

Returned(v) == [settled |-> TRUE, threw |-> FALSE, value |-> v, message |-> PlainMsg(Undefined)]

\* no fetch in flight
NoWire ==
    [phase |-> "none", outcome |-> Outcome("none", 0, "", TRUE, EmptyObject),
     expired |-> FALSE, aborted |-> FALSE]

\* "await fetch(url, ...)" pending, the timer armed
Sent == [NoWire EXCEPT !.phase = "fetch"]

ClientOps == {"verify", "settle", "health", "supported"}

Slots == 1..MaxCalls

\* an invocation that has not begun
NoInvocation ==
    [op |-> "none", pc |-> "idle", call |-> NoCall, requests |-> <<>>, wire |-> NoWire,
     answers |-> <<>>, timer |-> 0, vas |-> NoResult, response |-> NoResponse]

\* no checkFacilitatorHealth request yet
NoHealth ==
    [pc |-> "idle", facilitator |-> Null,
     outcome |-> Outcome("none", 0, "", TRUE, EmptyObject),
     response |-> NoHealthResponse]

\* no validateCroTransaction call yet
NoCroValidation ==
    [ran |-> FALSE, transaction |-> [from |-> <<>>, to |-> <<>>, value |-> 0],
     result |-> [valid |-> FALSE, error |-> Undefined]]

\* the caller has not asked about the payment yet; result is what the last
\* finished invocation resolved to, waited whether one of them was told to
\* wait for confirmations
NoWatch ==
    [pc |-> "idle", call |-> NoCroCall, receipt |-> NoReceipt,
     result |-> NoVerification, waited |-> FALSE]

Init ==
    /\ now = 0
    /\ pc = "idle"
    /\ caller = "none"
    /\ body = NoBody
    /\ call = NoCall
    /\ validation = NoValidation
    /\ requests = <<>>
    /\ trace = <<>>
    /\ verifyResult = NoResult
    /\ settleResult = NoResult
    /\ vas = NoResult
    /\ response = NoResponse
    /\ timers = 0
    /\ wire = NoWire
    /\ clientResult = NoResult
    /\ croBody = NoCroBody
    /\ croCall = NoCroCall
    /\ chain = NoChain
    /\ queries = <<>>
    /\ thrown = Undefined
    /\ verification = NoVerification
    /\ croResponse = NoCroResponse
    /\ built = NotBuilt
    /\ strategy = NoStrategy
    /\ client = CronosFacilitatorClient
    /\ calls = [i \in Slots |-> NoInvocation]
    /\ defaultClient = Null
    /\ heap = <<>>
    /\ handles = <<>>
    /\ health = NoHealth
    /\ croTx = NoCroValidation
    /\ ledger = NoChain
    /\ watch = NoWatch

Event(op, ev) == [op |-> op, ev |-> ev]

\* a second passes
Tick ==
    /\ now < MaxNow
    /\ now' = now + 1
    /\ UNCHANGED <<pc, caller, body, call, validation, requests, trace, verifyResult,
                   settleResult, vas, response, timers, wire, clientResult,
                   croVars, built, strategy, otherVars>>

\* the first statement of verifyAndSettle: verifyPayment sends its request
\* through fetch, which arms the timeout timer
StartVerify(c) ==
    /\ call' = c
    /\ requests' = fetchSends(verifyPaymentRequest(c))
    /\ trace' = <<Event("verify", "request")>>
    /\ timers' = 1
    /\ wire' = Sent
    /\ verifyResult' = NoResult
    /\ settleResult' = NoResult
    /\ vas' = NoResult
    /\ pc' = "verify"

\* POST /api/payment/usdc/submit arrives with some body b
SubmitUsdcPayment ==
    /\ pc = "idle"
    /\ \E b \in Bodies :
       /\ caller' = "route"
       /\ body' = b
       /\ LET s == submitUsdcPayment_start(b, now)
          IN  /\ validation' = s.validation
              /\ IF s.respond
                 THEN /\ response' = s.response
                      /\ call' = s.call
                      /\ requests' = <<>>
                      /\ trace' = <<>>
                      /\ timers' = 0
                      /\ wire' = NoWire
                      /\ verifyResult' = NoResult
                      /\ settleResult' = NoResult
                      /\ vas' = NoResult
                      /\ pc' = "done"
                 ELSE /\ response' = NoResponse
                      /\ StartVerify(s.call)
       /\ UNCHANGED <<now, clientResult, croVars, built, strategy, otherVars>>

\* client.verifyAndSettle(network, token, authorization) called directly
VerifyAndSettle ==
    /\ pc = "idle"
    /\ \E network \in {CRONOS_NETWORK.MAINNET, CRONOS_NETWORK.TESTNET},
          authorization \in ClientAuthorizations :
       /\ caller' = "client"
       /\ body' = NoBody
       /\ validation' = NoValidation
       /\ response' = NoResponse
       /\ StartVerify([network |-> network, token |-> getUsdcAddress(network),
                       authorization |-> authorization])
       /\ UNCHANGED <<now, clientResult, croVars, built, strategy, otherVars>>

\* client.healthCheck() or client.getSupportedNetworks() called directly: the
\* call sends its GET request through fetch
StartClientCall(op, request) ==
    /\ pc = "idle"
    /\ pc' = op
    /\ caller' = "client"
    /\ requests' = fetchSends(request)
    /\ trace' = <<Event(op, "request")>>
    /\ timers' = 1
    /\ wire' = Sent
    /\ UNCHANGED <<now, body, call, validation, verifyResult, settleResult, vas,
                   response, clientResult, croVars, built, strategy, otherVars>>

HealthCheck == StartClientCall("health", healthCheckRequest)

GetSupportedNetworks == StartClientCall("supported", getSupportedNetworksRequest)

\* validateTransferAuthorization(auth) called directly
ValidateTransferAuthorization ==
    /\ pc = "idle"
    /\ \E auth \in Authorizations :
       /\ caller' = "validator"
       /\ body' = NoBody
       /\ call' = [NoCall EXCEPT !.authorization = auth]
       /\ LET v == validateTransferAuthorization(auth, now)
          IN  validation' = [ran |-> TRUE, at |-> now, valid |-> v.valid, error |-> v.error]
       /\ requests' = <<>>
       /\ trace' = <<>>
       /\ timers' = 0
       /\ verifyResult' = NoResult
       /\ settleResult' = NoResult
       /\ vas' = NoResult
       /\ response' = NoResponse
       /\ pc' = "done"
       /\ UNCHANGED <<now, wire, clientResult, croVars, built, strategy, otherVars>>

\* verifyAndSettle settles with v; submitUsdcPayment, if it is the caller, answers
Finish(v) ==
    /\ vas' = v
    /\ response' = IF caller = "route" THEN submitUsdcPayment_finish(call.network, v)
                                       ELSE NoResponse
    /\ pc' = "done"

\* what the fetch of `op` observes: a response arrived, or the fetch failed
EventOf(op, outcome) ==
    Event(op, IF outcome.kind \in {"ok", "status", "parse"} THEN "response" ELSE "failed")

\* the I/O events after the wrapper's fetch settled with outcome o: the arrival
\* of a response was recorded when its headers came
Observed(op, o) ==
    IF EventOf(op, o).ev = "failed" THEN Append(trace, EventOf(op, o)) ELSE trace

\* the wrapper's fetch is over: w is the wire as the last event left it
Closed(w, o) == [w EXCEPT !.phase = "none", !.outcome = o]

\* the ways the pending "await fetch" or body read can end by itself: the
\* body read ends as the response that arrived says, the fetch is rejected
Completions ==
    IF wire.phase = "body" THEN {wire.outcome}
    ELSE IF wire.phase = "fetch"
    THEN {o \in OutcomesOf(pc) : o.kind \in {"error", "thrown"}}
    ELSE {}

\* the response headers of the pending fetch arrive: "await fetch" resolves,
\* clearTimeout(timeoutId) runs, and response.json() or response.text() starts
ResponseArrives ==
    /\ pc \in ClientOps
    /\ wire.phase = "fetch"
    /\ \E o \in OutcomesOf(pc) :
       /\ o.kind \in {"ok", "status", "parse"}
       /\ wire' = [wire EXCEPT !.phase = "body", !.outcome = o]
       /\ trace' = Append(trace, EventOf(pc, o))
       /\ timers' = 0
    /\ UNCHANGED <<now, pc, caller, body, call, validation, requests, verifyResult,
                   settleResult, vas, response, clientResult, croVars, built, strategy, otherVars>>

\* verifyPayment's fetch ended with outcome o, and verifyAndSettle runs on to
\* its return or to the settle request
AfterVerifyPayment(w, o) ==
    /\ LET r == fetch(CronosFacilitatorClient, o)
           step == verifyAndSettle_afterVerify(r.data)
       IN  /\ verifyResult' = Settled(r)
           /\ IF r.threw
              THEN /\ Finish(Settled(r))
                   /\ trace' = Observed("verify", o)
                   /\ timers' = 0
                   /\ wire' = Closed(w, o)
                   /\ UNCHANGED requests
              ELSE IF step.return
              THEN /\ Finish(Returned(step.value))
                   /\ trace' = Observed("verify", o)
                   /\ timers' = 0
                   /\ wire' = Closed(w, o)
                   /\ UNCHANGED requests
              ELSE /\ requests' = requests \o fetchSends(
                          settlePaymentRequest([network |-> call.network,
                                                token |-> call.token,
                                                authorization |-> call.authorization,
                                                verificationId |-> r.data.verificationId]))
                   /\ trace' = Append(Observed("verify", o), Event("settle", "request"))
                   /\ timers' = 1
                   /\ wire' = Sent
                   /\ pc' = "settle"
                   /\ UNCHANGED <<vas, response>>
    /\ UNCHANGED <<now, caller, body, call, validation, settleResult, clientResult,
                   croVars, built, strategy, otherVars>>

\* settlePayment's fetch ended with outcome o
AfterSettlePayment(w, o) ==
    /\ LET r == fetch(CronosFacilitatorClient, o)
       IN  /\ settleResult' = Settled(r)
           /\ Finish(IF r.threw THEN Settled(r)
                                ELSE Returned(verifyAndSettle_afterSettle(r.data)))
    /\ trace' = Observed("settle", o)
    /\ timers' = 0
    /\ wire' = Closed(w, o)
    /\ UNCHANGED <<now, caller, body, call, validation, requests, verifyResult,
                   clientResult, croVars, built, strategy, otherVars>>

\* the fetch of healthCheck or getSupportedNetworks ended with outcome o
AfterClientCall(w, o) ==
    /\ clientResult' = Settled(fetch(CronosFacilitatorClient, o))
    /\ trace' = Observed(pc, o)
    /\ timers' = 0
    /\ wire' = Closed(w, o)
    /\ pc' = "done"
    /\ UNCHANGED <<now, caller, body, call, validation, requests, verifyResult,
                   settleResult, vas, response, croVars, built, strategy, otherVars>>

\* the client call in flight goes on after its fetch ended with outcome o
After(w, o) ==
    CASE pc = "verify" -> AfterVerifyPayment(w, o)
      [] pc = "settle" -> AfterSettlePayment(w, o)
      [] OTHER -> AfterClientCall(w, o)

\* the fetch of the verify request completes
VerifyPaymentSettles ==
    /\ pc = "verify"
    /\ \E o \in Completions : AfterVerifyPayment(wire, o)

\* the fetch of the settle request completes
SettlePaymentSettles ==
    /\ pc = "settle"
    /\ \E o \in Completions : AfterSettlePayment(wire, o)

\* the fetch of the health request completes
HealthCheckSettles ==
    /\ pc = "health"
    /\ \E o \in Completions : AfterClientCall(wire, o)

\* the fetch of the supported-networks request completes
GetSupportedNetworksSettles ==
    /\ pc = "supported"
    /\ \E o \in Completions : AfterClientCall(wire, o)

\* client.timeout milliseconds have passed since the wrapper armed its timer.
\* If the timer is still armed its callback runs controller.abort(), the fetch
\* rejects with AbortError and the wrapper throws; a timer that clearTimeout
\* removed when the headers came does nothing
TimeoutElapses ==
    /\ pc \in ClientOps
    /\ wire.phase \in {"fetch", "body"}
    /\ ~wire.expired
    /\ IF timers = 1
       THEN After([wire EXCEPT !.expired = TRUE, !.aborted = TRUE], Aborted)
       ELSE /\ wire' = [wire EXCEPT !.expired = TRUE]
            /\ UNCHANGED <<now, pc, caller, body, call, validation, requests, trace,
                           verifyResult, settleResult, vas, response, timers,
                           clientResult, croVars, built, strategy, otherVars>>

\* verifyCroPayment begins: getPublicClient, then the receipt query is sent
StartVerifyCroPayment(c, ch) ==
    /\ croCall' = c
    /\ chain' = ch
    /\ queries' = chainQuery("getTransactionReceipt")
    /\ thrown' = Undefined
    /\ verification' = NoVerification
    /\ pc' = "receipt"

\* verifyCroPayment(txHash, expectedRecipient, expectedAmount, network,
\* minConfirmations?) called directly
VerifyCroPayment ==
    /\ pc = "idle"
    /\ \E c \in CroCalls, ch \in Chains :
       /\ caller' = "direct"
       /\ croBody' = NoCroBody
       /\ croResponse' = NoCroResponse
       /\ StartVerifyCroPayment(c, ch)
    /\ UNCHANGED <<now, payVars, built, strategy, otherVars>>

\* POST /api/payment/cro/verify arrives with some body b
VerifyCroPaymentEndpoint ==
    /\ pc = "idle"
    /\ \E b \in CroBodies :
       LET s == verifyCroPaymentEndpoint_start(b)
       IN  /\ caller' = "endpoint"
           /\ croBody' = b
           /\ IF s.respond
              THEN /\ croResponse' = s.response
                   /\ croCall' = s.call
                   /\ chain' = NoChain
                   /\ queries' = <<>>
                   /\ thrown' = Undefined
                   /\ verification' = NoVerification
                   /\ pc' = "done"
              ELSE /\ croResponse' = NoCroResponse
                   /\ \E ch \in Chains : StartVerifyCroPayment(s.call, ch)
    /\ UNCHANGED <<now, payVars, built, strategy, otherVars>>

\* verifyCroPayment goes on after a query, as `step` says: it resolves (and the
\* endpoint, if it is the caller, answers), or it sends the query `next`
CroStep(step, next) ==
    /\ thrown' = step.threw
    /\ IF step.return
       THEN /\ verification' = [step.value EXCEPT !.settled = TRUE]
            /\ croResponse' = IF caller = "endpoint"
                              THEN verifyCroPaymentEndpoint_finish(croCall.network, step.value)
                              ELSE NoCroResponse
            /\ pc' = "done"
            /\ UNCHANGED queries
       ELSE /\ queries' = queries \o chainQuery(next)
            /\ pc' = IF next = "getTransaction" THEN "transaction" ELSE "blockNumber"
            /\ UNCHANGED <<verification, croResponse>>
    /\ UNCHANGED <<now, caller, payVars, built, strategy, otherVars, croBody, croCall, chain>>

\* "await client.getTransactionReceipt(...)" settles
GetTransactionReceiptSettles ==
    /\ pc = "receipt"
    /\ \E a \in ReceiptAnswers(chain) :
          CroStep(verifyCroPayment_afterReceipt(croCall.txHash, a), "getTransaction")

\* "await client.getTransaction(...)" settles
GetTransactionSettles ==
    /\ pc = "transaction"
    /\ \E a \in TransactionAnswers(chain) :
          CroStep(verifyCroPayment_afterTransaction(croCall.txHash, chain.receipt, a,
                      croCall.expectedRecipient, croCall.expectedAmount),
                  "getBlockNumber")

\* "await client.getBlockNumber()" settles
GetBlockNumberSettles ==
    /\ pc = "blockNumber"
    /\ \E a \in BlockNumberAnswers(chain) :
          CroStep(verifyCroPayment_afterBlockNumber(croCall.txHash, chain.receipt, a,
                      verifyCroPayment_minConfirmations(croCall.minConfirmations)),
                  "none")

\* createTransferAuthorization(from, to, amount, validityWindow?) is called
CreateTransferAuthorization ==
    /\ pc = "idle"
    /\ \E from \in BuilderAddresses, amount \in UsdcAmounts, w \in ValidityWindows,
          m \in Millis, rnd \in RandomBytes :
       LET r == createTransferAuthorization(from, RECIPIENT, amount, w, now,
                                            generateNonce(now * 1000 + m, rnd))
       IN  built' = [NotBuilt EXCEPT
                     !.op = "createTransferAuthorization", !.amount = amount,
                     !.from = from, !.to = RECIPIENT, !.validityWindow = w, !.at = now,
                     !.ms = now * 1000 + m, !.threw = r.threw, !.result = r.result]
    /\ caller' = "builder"
    /\ pc' = "done"
    /\ UNCHANGED <<now, payVars, croVars, strategy, otherVars>>

\* buildCroTransaction(from, to, amountCro, network) is called
BuildCroTransaction ==
    /\ pc = "idle"
    /\ \E amount \in CroAmounts, network \in {CRONOS_NETWORK.MAINNET, CRONOS_NETWORK.TESTNET} :
       LET r == buildCroTransaction(PAYER, RECIPIENT, amount, network)
       IN  built' = [NotBuilt EXCEPT
                     !.op = "buildCroTransaction", !.amount = amount,
                     !.from = PAYER, !.to = RECIPIENT, !.at = now, !.ms = now * 1000,
                     !.network = network, !.threw = r.threw, !.result = r.result]
    /\ caller' = "builder"
    /\ pc' = "done"
    /\ UNCHANGED <<now, payVars, croVars, strategy, otherVars>>

\* signTransferAuthorization(authorization, privateKey, network) is called with an
\* authorization made by createTransferAuthorization at this moment
SignTransferAuthorization ==
    /\ pc = "idle"
    /\ \E amount \in {<<"1">>, <<"2">>}, key \in PrivateKeys,
          network \in {CRONOS_NETWORK.MAINNET, CRONOS_NETWORK.TESTNET} :
       LET nonce == generateNonce(now * 1000, [i \in 1..24 |-> 0])
           made == createTransferAuthorization(PAYER, RECIPIENT, amount,
                       [present |-> FALSE, n |-> 0], now, nonce)
           signed == signTransferAuthorization(made.result, key, network)
       IN  built' = [NotBuilt EXCEPT
                     !.op = "signTransferAuthorization", !.amount = amount,
                     !.from = PAYER, !.to = RECIPIENT, !.at = now, !.ms = now * 1000,
                     !.network = network, !.key = key,
                     !.signature = signed.signature, !.result = signed.authorization]
    /\ caller' = "builder"
    /\ pc' = "done"
    /\ UNCHANGED <<now, payVars, croVars, strategy, otherVars>>

\* CronosPaymentStrategy.canSign(context) runs to its end
CanSign ==
    /\ pc = "idle"
    /\ \E db \in Databases, requirement \in PaymentRequirements :
       LET r == canSign(db, requirement)
       IN  strategy' = [NoStrategy EXCEPT
                        !.op = "canSign", !.db = db, !.network = requirement.network,
                        !.asset = requirement.asset, !.threw = r.threw,
                        !.value = r.value]
    /\ caller' = "strategy"
    /\ pc' = "done"
    /\ UNCHANGED <<now, payVars, croVars, built, otherVars>>

\* CronosPaymentStrategy.signPayment(context) runs to its end
SignPayment ==
    /\ pc = "idle"
    /\ \E db \in Databases, requirement \in PaymentRequirements :
       strategy' = [NoStrategy EXCEPT
                    !.op = "signPayment", !.db = db, !.network = requirement.network,
                    !.asset = requirement.asset,
                    !.result = signPayment(db, requirement)]
    /\ caller' = "strategy"
    /\ pc' = "done"
    /\ UNCHANGED <<now, payVars, croVars, built, otherVars>>

\* the result has been delivered to the caller; the invocation's locals are gone
Complete ==
    /\ pc = "done"
    /\ pc' = "idle"
    /\ caller' = "none"
    /\ body' = NoBody
    /\ call' = NoCall
    /\ validation' = NoValidation
    /\ requests' = <<>>
    /\ trace' = <<>>
    /\ verifyResult' = NoResult
    /\ settleResult' = NoResult
    /\ vas' = NoResult
    /\ response' = NoResponse
    /\ wire' = NoWire
    /\ clientResult' = NoResult
    /\ croBody' = NoCroBody
    /\ croCall' = NoCroCall
    /\ chain' = NoChain
    /\ queries' = <<>>
    /\ thrown' = Undefined
    /\ verification' = NoVerification
    /\ croResponse' = NoCroResponse
    /\ built' = NotBuilt
    /\ strategy' = NoStrategy
    /\ UNCHANGED <<now, timers, otherVars>>

Next ==
    \/ Tick
    \/ SubmitUsdcPayment
    \/ VerifyAndSettle
    \/ HealthCheck
    \/ GetSupportedNetworks
    \/ ValidateTransferAuthorization
    \/ ResponseArrives
    \/ VerifyPaymentSettles
    \/ SettlePaymentSettles
    \/ HealthCheckSettles
    \/ GetSupportedNetworksSettles
    \/ TimeoutElapses
    \/ VerifyCroPayment
    \/ VerifyCroPaymentEndpoint
    \/ GetTransactionReceiptSettles
    \/ GetTransactionSettles
    \/ GetBlockNumberSettles
    \/ CreateTransferAuthorization
    \/ BuildCroTransaction
    \/ SignTransferAuthorization
    \/ CanSign
    \/ SignPayment
    \/ Complete

Spec == Init /\ [][Next]_vars

TypeOK ==
    /\ now \in 0..MaxNow
    /\ pc \in {"idle", "done", "receipt", "transaction", "blockNumber"} \cup ClientOps
    /\ caller \in {"none", "route", "client", "validator", "direct", "endpoint", "builder",
                 "strategy"}
    /\ Len(queries) <= 3
    /\ timers \in {0, 1}
    /\ timers = 1 <=> wire.phase = "fetch"
    /\ Len(requests) <= 2

(***************************************************************************)
(* Concurrent invocations on the default client (getFacilitatorClient)     *)
(***************************************************************************)
\* the signed authorization every concurrent submission carries
REPLAY_BODY ==
    [hasAuthorization |-> TRUE, network |-> CRONOS_NETWORK.TESTNET,
     authorization |-> [from |-> PAYER, to |-> RECIPIENT, value |-> <<"1">>,
                        validAfter |-> <<"0">>,
                        validBefore |-> BigIntToString(MaxNow + 1),
                        nonce |-> NONCE_OK, signature |-> SIGNATURE]]

\* what the settlement service can answer to concurrent calls
SharedOutcomes(op) ==
    CASE op = "verify" ->
           {Outcome("ok", 200, "", TRUE, j) : j \in VerifyPaymentResponses}
      [] op = "settle" ->
           {Outcome("ok", 200, "", TRUE, [EmptyObject EXCEPT !.success = TRUE,
                                                             !.txHash = TX_HASH]),
            Outcome("ok", 200, "", TRUE, [EmptyObject EXCEPT !.success = FALSE,
                                              !.error = "Settlement failed"])}
      [] OTHER -> {Outcome("ok", 200, "", TRUE, j) : j \in HealthCheckResponses}

SharedFailures ==
    {Outcome("status", 500, "Internal server error", TRUE, EmptyObject),
     Outcome("error", 0, "Failed to fetch", TRUE, EmptyObject)}

abortTargets_shared(i, pending) == pending

\* the invocations whose fetch the abort of invocation i's controller rejects:
\* fetch creates the AbortController and the timer of a call as locals
abortTargets(i, pending) == {i}

\* the invocation c goes on after its fetch ended with outcome o
invocationAfter(cl, c, o) ==
    LET r == fetch(cl, o)
        over == [c EXCEPT !.wire = Closed(c.wire, o), !.timer = 0, !.pc = "done",
                          !.answers = Append(@, o)]
        route(v) == [over EXCEPT !.vas = v,
                         !.response = submitUsdcPayment_finish(c.call.network, v)]
    IN  CASE c.pc = "verify" ->
               IF r.threw THEN route(Settled(r))
               ELSE LET step == verifyAndSettle_afterVerify(r.data)
                    IN  IF step.return THEN route(Returned(step.value))
                        ELSE [c EXCEPT
                                !.requests = @ \o fetchSends(settlePaymentRequest(
                                    [network |-> c.call.network, token |-> c.call.token,
                                     authorization |-> c.call.authorization,
                                     verificationId |-> r.data.verificationId])),
                                !.answers = Append(@, o),
                                !.wire = Sent, !.timer = 1, !.pc = "settle"]
          [] c.pc = "settle" ->
               route(IF r.threw THEN Settled(r)
                                ELSE Returned(verifyAndSettle_afterSettle(r.data)))
          [] OTHER -> [over EXCEPT !.vas = Settled(r)]

InFlight(i) == calls[i].pc \in ClientOps

\* invocation i is a request to submitUsdcPayment carrying REPLAY_BODY
SharedSubmitUsdcPayment(i) ==
    /\ calls[i].pc = "idle"
    /\ LET s == submitUsdcPayment_start(REPLAY_BODY, now)
       IN  calls' = [calls EXCEPT ![i] =
              IF s.respond
              THEN [NoInvocation EXCEPT !.op = "submitUsdcPayment", !.pc = "done",
                                        !.response = s.response]
              ELSE [NoInvocation EXCEPT !.op = "submitUsdcPayment", !.pc = "verify",
                        !.call = s.call,
                        !.requests = fetchSends(verifyPaymentRequest(s.call)),
                        !.wire = Sent, !.timer = 1]]
    /\ UNCHANGED <<now, pc, caller, payVars, croVars, built, strategy, client, localVars, chainVars>>

\* invocation i is a call of healthCheck
SharedHealthCheck(i) ==
    /\ calls[i].pc = "idle"
    /\ calls' = [calls EXCEPT ![i] =
          [NoInvocation EXCEPT !.op = "healthCheck", !.pc = "health",
                               !.requests = fetchSends(healthCheckRequest),
                               !.wire = Sent, !.timer = 1]]
    /\ UNCHANGED <<now, pc, caller, payVars, croVars, built, strategy, client, localVars, chainVars>>

\* the response headers of invocation i's pending fetch arrive
SharedResponseArrives(i) ==
    /\ InFlight(i)
    /\ calls[i].wire.phase = "fetch"
    /\ \E o \in SharedOutcomes(calls[i].pc) \cup SharedFailures :
       /\ o.kind \in {"ok", "status"}
       /\ calls' = [calls EXCEPT ![i].wire = [@ EXCEPT !.phase = "body", !.outcome = o],
                                 ![i].timer = 0]
    /\ UNCHANGED <<now, pc, caller, payVars, croVars, built, strategy, client, localVars, chainVars>>

\* invocation i's body read ends, or its pending fetch is rejected
SharedFetchSettles(i) ==
    /\ InFlight(i)
    /\ \E o \in IF calls[i].wire.phase = "body" THEN {calls[i].wire.outcome}
                ELSE {f \in SharedFailures : f.kind = "error"} :
       calls' = [calls EXCEPT ![i] = invocationAfter(client, calls[i], o)]
    /\ UNCHANGED <<now, pc, caller, payVars, croVars, built, strategy, client, localVars, chainVars>>

\* the armed timer of invocation i fires: its callback aborts its controller
SharedTimeoutElapses(i) ==
    /\ InFlight(i)
    /\ calls[i].timer = 1
    /\ LET pending == {j \in Slots : InFlight(j) /\ calls[j].wire.phase = "fetch"}
           hit == abortTargets(i, pending)
       IN  calls' = [j \in Slots |->
              IF j \in hit
              THEN invocationAfter(client,
                       [calls[j] EXCEPT !.wire.expired = (j = i), !.wire.aborted = TRUE],
                       Aborted)
              ELSE calls[j]]
    /\ UNCHANGED <<now, pc, caller, payVars, croVars, built, strategy, client, localVars, chainVars>>

NextShared ==
    \/ \E i \in Slots : SharedSubmitUsdcPayment(i)
    \/ \E i \in Slots : SharedHealthCheck(i)
    \/ \E i \in Slots : SharedResponseArrives(i)
    \/ \E i \in Slots : SharedFetchSettles(i)
    \/ \E i \in Slots : SharedTimeoutElapses(i)

SpecShared == Init /\ [][NextShared]_vars

\* a client call never stays pending when every armed timer fires in the end;
\* nothing obliges the settlement service to answer or to finish a body
SpecSharedLive == SpecShared /\ \A i \in Slots : WF_vars(SharedTimeoutElapses(i))

(***************************************************************************)
(* verifyCroPayment invoked again and again while the chain grows          *)
(***************************************************************************)
\* the block with the payment is added to the chain
PaymentMined ==
    /\ ~ledger.receipt.present
    /\ \E c \in MinedPayments : ledger' = c
    /\ UNCHANGED <<now, pc, caller, payVars, croVars, built, strategy, sharedVars,
                   localVars, watch>>

\* a block is added on top of the head
NewBlock ==
    /\ ledger.receipt.present
    /\ ledger.head < MaxHead
    /\ ledger' = [ledger EXCEPT !.head = @ + 1]
    /\ UNCHANGED <<now, pc, caller, payVars, croVars, built, strategy, sharedVars,
                   localVars, watch>>

\* the caller invokes verifyCroPayment for the mined payment, and invokes it
\* again with the same arguments after "Insufficient confirmations" (or after
\* an acceptance, to look again)
WatchVerifyCroPayment ==
    /\ ledger.receipt.present
    /\ \/ /\ watch.pc = "idle"
          /\ \E c \in WatchCalls : watch' = [watch EXCEPT !.pc = "receipt", !.call = c]
       \/ /\ watch.pc = "done"
          /\ watch.result.valid \/ watch.result.error = "Insufficient confirmations"
          /\ watch' = [watch EXCEPT !.pc = "receipt"]
    /\ UNCHANGED <<now, pc, caller, payVars, croVars, built, strategy, sharedVars,
                   localVars, ledger>>

\* the invocation goes on after a query the node answered from the ledger
WatchStep(step, next, receipt) ==
    /\ watch' = IF step.return
                THEN [watch EXCEPT
                        !.pc = "done", !.receipt = receipt,
                        !.result = [step.value EXCEPT !.settled = TRUE],
                        !.waited = @ \/ step.value.error = "Insufficient confirmations"]
                ELSE [watch EXCEPT !.pc = next, !.receipt = receipt]
    /\ UNCHANGED <<now, pc, caller, payVars, croVars, built, strategy, sharedVars,
                   localVars, ledger>>

WatchReceiptSettles ==
    /\ watch.pc = "receipt"
    /\ \E step \in {verifyCroPayment_afterReceipt(watch.call.txHash,
                         Answer("value", ledger.receipt, Undefined))} :
          WatchStep(step, "transaction", ledger.receipt)

WatchTransactionSettles ==
    /\ watch.pc = "transaction"
    /\ \E step \in {verifyCroPayment_afterTransaction(watch.call.txHash, watch.receipt,
                         Answer("value", ledger.tx, Undefined),
                         watch.call.expectedRecipient, watch.call.expectedAmount)} :
          WatchStep(step, "blockNumber", watch.receipt)

WatchBlockNumberSettles ==
    /\ watch.pc = "blockNumber"
    /\ \E step \in {verifyCroPayment_afterBlockNumber(watch.call.txHash, watch.receipt,
                         Answer("value", ledger.head, Undefined),
                         verifyCroPayment_minConfirmations(watch.call.minConfirmations))} :
          WatchStep(step, "none", watch.receipt)

NextChain ==
    \/ PaymentMined
    \/ NewBlock
    \/ WatchVerifyCroPayment
    \/ WatchReceiptSettles
    \/ WatchTransactionSettles
    \/ WatchBlockNumberSettles

\* the head keeps advancing (up to the bound), the caller keeps invoking and
\* the node answers every query
SpecChain ==
    /\ Init
    /\ [][NextChain]_vars
    /\ WF_vars(NewBlock)
    /\ WF_vars(WatchVerifyCroPayment)
    /\ WF_vars(WatchReceiptSettles)
    /\ WF_vars(WatchTransactionSettles)
    /\ WF_vars(WatchBlockNumberSettles)

(***************************************************************************)
(* The client factory, the health route and validateCroTransaction         *)
(***************************************************************************)
\* a factory call that returned `made`, as `by` sees it
Handed(by, made) ==
    /\ heap' = made.heap
    /\ handles' = Append(handles, [by |-> by, ref |-> made.ref])

GetFacilitatorClient ==
    /\ Len(handles) < MaxHandles
    /\ LET g == getFacilitatorClient(heap, defaultClient)
       IN  /\ Handed("getFacilitatorClient", g)
           /\ defaultClient' = g.defaultClient
    /\ UNCHANGED <<now, pc, caller, payVars, croVars, built, strategy, sharedVars,
                   health, croTx, chainVars>>

CreateFacilitatorClient ==
    /\ Len(handles) < MaxHandles
    /\ \E config \in Configs : Handed("createFacilitatorClient",
                                      createFacilitatorClient(heap, config))
    /\ UNCHANGED <<now, pc, caller, payVars, croVars, built, strategy, sharedVars,
                   defaultClient, health, croTx, chainVars>>

\* GET /api/payment/facilitator/health up to "await facilitator.healthCheck()"
CheckFacilitatorHealth ==
    /\ health.pc # "healthCheck"
    /\ Len(handles) < MaxHandles
    /\ LET g == getFacilitatorClient(heap, defaultClient)
       IN  /\ Handed("getFacilitatorClient", g)
           /\ defaultClient' = g.defaultClient
           /\ health' = [NoHealth EXCEPT !.pc = "healthCheck", !.facilitator = g.ref]
    /\ UNCHANGED <<now, pc, caller, payVars, croVars, built, strategy, sharedVars,
                   croTx, chainVars>>

\* healthCheck returns or throws, and the route answers
CheckFacilitatorHealthSettles ==
    /\ health.pc = "healthCheck"
    /\ \E o \in RouteHealthOutcomes :
          health' = [health EXCEPT
              !.pc = "done", !.outcome = o,
              !.response = checkFacilitatorHealth_afterHealthCheck(
                               fetch(heap[health.facilitator], o))]
    /\ UNCHANGED <<now, pc, caller, payVars, croVars, built, strategy, sharedVars,
                   defaultClient, heap, handles, croTx, chainVars>>

\* validateCroTransaction(transaction) is called; it keeps no state, so one
\* call in a run shows every case
ValidateCroTransaction ==
    /\ ~croTx.ran
    /\ \E transaction \in CroTransactions :
          croTx' = [ran |-> TRUE, transaction |-> transaction,
                    result |-> validateCroTransaction(transaction)]
    /\ UNCHANGED <<now, pc, caller, payVars, croVars, built, strategy, sharedVars,
                   defaultClient, heap, handles, health, chainVars>>

NextLocal ==
    \/ GetFacilitatorClient
    \/ CreateFacilitatorClient
    \/ CheckFacilitatorHealth
    \/ CheckFacilitatorHealthSettles
    \/ ValidateCroTransaction

SpecLocal == Init /\ [][NextLocal]_vars

(***************************************************************************)
(* Properties                                                              *)
(***************************************************************************)
VerifySaid(valid) ==
    verifyResult.settled /\ ~verifyResult.threw /\ verifyResult.value.valid = valid

SettleRequested == \E i \in 1..Len(trace) : trace[i].op = "settle"

\* C1: in verifyAndSettle, once verifyPayment has returned valid=false no settle
\* request is ever sent: the verify request is the only request made, and the
\* call returns {success:false, error:"Verification failed", reason:<verify's reason>}
C1_NoSettleAfterRejectedVerify ==
    VerifySaid(FALSE) =>
        /\ pc = "done"
        /\ Len(requests) = 1
        /\ requests[1].endpoint = ENDPOINTS.VERIFY
        /\ ~SettleRequested
        /\ ~settleResult.settled
        /\ vas = Returned([EmptyObject EXCEPT !.success = FALSE,
                                              !.error = "Verification failed",
                                              !.reason = verifyResult.value.reason])

C1_Witness ==
    /\ VerifySaid(FALSE)
    /\ verifyResult.value.reason = "Invalid signature"
    /\ vas.settled
    /\ vas.value.reason = "Invalid signature"

\* C2: the settle request is sent only right after the verify response arrived;
\* when verify answered valid=true exactly two requests are made, verify first
\* and settle second, and what verifyAndSettle returns is the settle response
C2_VerifyThenSettle ==
    /\ \A i \in 1..Len(trace) :
           trace[i] = Event("settle", "request") =>
               /\ i = 3
               /\ trace[1] = Event("verify", "request")
               /\ trace[2] = Event("verify", "response")
               /\ VerifySaid(TRUE)
    /\ VerifySaid(TRUE) =>
           /\ Len(requests) = 2
           /\ requests[1].endpoint = ENDPOINTS.VERIFY
           /\ requests[2].endpoint = ENDPOINTS.SETTLE
    /\ (VerifySaid(TRUE) /\ vas.settled /\ ~vas.threw) =>
           /\ settleResult.settled
           /\ ~settleResult.threw
           /\ vas.value = settleResult.value

C2_Witness ==
    /\ VerifySaid(TRUE)
    /\ vas.settled
    /\ ~vas.threw
    /\ vas.value.success = FALSE
    /\ vas.value.error = "Settlement failed"
    /\ vas.value.reason = "Insufficient balance"
    /\ Len(requests) = 2

\* C3: a submitUsdcPayment request whose authorization validateTransferAuthorization
\* rejects is answered 400 "Invalid authorization" with the validation reason, and
\* no request is sent to the facilitator; no request is sent either for a request
\* that never reached a successful validation
C3_ValidationBeforeIO ==
    /\ (caller = "route" /\ validation.ran /\ ~validation.valid) =>
           /\ pc = "done"
           /\ response.status = 400
           /\ response.success = FALSE
           /\ response.error = "Invalid authorization"
           /\ response.reason = validation.error
           /\ response.reason # Undefined
           /\ requests = <<>>
           /\ trace = <<>>
           /\ timers = 0
    /\ (caller = "route" /\ ~(validation.ran /\ validation.valid)) => requests = <<>>

C3_Witness ==
    /\ caller = "route"
    /\ validation.ran
    /\ call.authorization.value > 0
    /\ call.authorization.validBefore < validation.at
    /\ response.status = 400
    /\ response.reason = "Authorization has expired"
    /\ requests = <<>>

\* the result carries a transaction hash (a present, non-empty string)
HasTxHash(result) == result.txHash \notin {Undefined, ""}

\* C4: submitUsdcPayment answers 200 success:true only when verifyAndSettle
\* returned success=true with a txHash, and echoes exactly that txHash; every other
\* value verifyAndSettle returns is answered 500 "Payment settlement failed"
C4_SuccessOnlyWithTxHash ==
    /\ (caller = "route" /\ vas.settled /\ ~vas.threw) =>
           IF vas.value.success /\ HasTxHash(vas.value)
           THEN /\ response.status = 200
                /\ response.success = TRUE
                /\ response.txHash = vas.value.txHash
           ELSE /\ response.status = 500
                /\ response.success = FALSE
                /\ response.error = "Payment settlement failed"
    /\ (response.success \/ response.status = 200) =>
           /\ caller = "route"
           /\ response.success
           /\ response.status = 200
           /\ vas.settled
           /\ ~vas.threw
           /\ vas.value.success
           /\ HasTxHash(vas.value)
           /\ response.txHash = vas.value.txHash

C4_Witness ==
    /\ caller = "route"
    /\ response.status = 200
    /\ response.txHash = TX_HASH
    /\ vas.value.txHash = TX_HASH

\* the invariants of the validator, in the order the specification lists them
Violates(k, a, t) ==
    CASE k = 1 -> a.value <= 0
      [] k = 2 -> a.from = a.to
      [] k = 3 -> a.validBefore <= t
      [] k = 4 -> a.validAfter > t
      [] k = 5 -> Len(a.nonce) # 66

Reasons ==
    <<"Transfer amount must be positive", "Cannot transfer to self",
      "Authorization has expired", "Authorization not yet valid", "Invalid nonce format">>

\* C5: validateTransferAuthorization reports the first violated invariant in the
\* order positive value, non-self-transfer, not-expired, not-yet-valid, nonce
\* length, accepts when none is violated, and performs no I/O
C5_FirstViolationReported ==
    validation.ran =>
        LET a == call.authorization
            t == validation.at
        IN  /\ \A k \in 1..5 :
                   (Violates(k, a, t) /\ \A j \in 1..(k - 1) : ~Violates(j, a, t)) =>
                       (~validation.valid /\ validation.error = Reasons[k])
            /\ (\A k \in 1..5 : ~Violates(k, a, t)) =>
                   (validation.valid /\ validation.error = Undefined)
            /\ caller = "validator" => (requests = <<>> /\ trace = <<>> /\ timers = 0)

C5_Witness ==
    /\ caller = "validator"
    /\ validation.ran
    /\ call.authorization.value = 0
    /\ call.authorization.from = call.authorization.to
    /\ call.authorization.validBefore <= validation.at
    /\ call.authorization.nonce = NONCE_SHORT
    /\ validation.error = "Transfer amount must be positive"

\* C6: an authorization with value <= 0 fails validation with "Transfer amount
\* must be positive", whatever its other fields are
C6_NonPositiveValueRejected ==
    (validation.ran /\ call.authorization.value <= 0) =>
        (~validation.valid /\ validation.error = "Transfer amount must be positive")

C6_Witness ==
    /\ validation.ran
    /\ call.authorization.value = 0
    /\ call.authorization.from # call.authorization.to
    /\ call.authorization.validAfter <= validation.at
    /\ validation.at < call.authorization.validBefore
    /\ call.authorization.nonce = NONCE_OK
    /\ validation.error = "Transfer amount must be positive"

\* C7: an authorization with positive value and from == to fails validation with
\* "Cannot transfer to self"
C7_SelfTransferRejected ==
    (validation.ran /\ call.authorization.value > 0
        /\ call.authorization.from = call.authorization.to) =>
        (~validation.valid /\ validation.error = "Cannot transfer to self")

C7_Witness ==
    /\ validation.ran
    /\ call.authorization.value > 0
    /\ call.authorization.from = call.authorization.to
    /\ call.authorization.validBefore <= validation.at
    /\ validation.error = "Cannot transfer to self"

\* C8: past the value and self-transfer checks, validBefore <= now (equality
\* included) gives "Authorization has expired", otherwise validAfter > now gives
\* "Authorization not yet valid", and the time-window checks pass exactly when
\* validAfter <= now < validBefore
C8_TimeWindow ==
    (validation.ran /\ call.authorization.value > 0
        /\ call.authorization.from # call.authorization.to) =>
        LET a == call.authorization
            t == validation.at
        IN  /\ a.validBefore <= t =>
                   (~validation.valid /\ validation.error = "Authorization has expired")
            /\ (a.validBefore > t /\ a.validAfter > t) =>
                   (~validation.valid /\ validation.error = "Authorization not yet valid")
            /\ (a.validAfter <= t /\ t < a.validBefore) <=>
                   validation.error \notin {"Authorization has expired",
                                            "Authorization not yet valid"}

C8_Witness ==
    /\ validation.ran
    /\ call.authorization.value > 0
    /\ call.authorization.from # call.authorization.to
    /\ validation.at > 0
    /\ call.authorization.validBefore = validation.at
    /\ call.authorization.validAfter = validation.at
    /\ validation.error = "Authorization has expired"

\* a 32-byte hex string: 0x followed by 64 hex digits
IsBytes32(nonce) ==
    /\ Len(nonce) = 66
    /\ nonce[1] = "0"
    /\ nonce[2] = "x"
    /\ \A i \in 3..66 : nonce[i] \in HexChars

\* C9: past the earlier checks, an authorization whose nonce is not exactly 32
\* bytes (0x followed by 64 hex digits) fails validation with "Invalid nonce format"
C9_MalformedNonceRejected ==
    (validation.ran /\ call.authorization.value > 0
        /\ call.authorization.from # call.authorization.to
        /\ call.authorization.validAfter <= validation.at
        /\ validation.at < call.authorization.validBefore
        /\ ~IsBytes32(call.authorization.nonce)) =>
        (~validation.valid /\ validation.error = "Invalid nonce format")

\* C10: every authorization validateTransferAuthorization accepts has value > 0,
\* from != to, a recipient other than the zero address, validAfter <= now <
\* validBefore and a nonce of exactly 32 bytes
C10_AcceptedSatisfiesInvariants ==
    (validation.ran /\ validation.valid) =>
        LET a == call.authorization
            t == validation.at
        IN  /\ a.value > 0
            /\ a.from # a.to
            /\ a.to # CRO_ADDRESS
            /\ a.validAfter <= t
            /\ t < a.validBefore
            /\ IsBytes32(a.nonce)

UnsupportedNetworkText ==
    "Unsupported network: ${network}. Must be cronos-mainnet or cronos-testnet"

KnownNetworks == {"cronos-mainnet", "cronos-testnet"}

\* C11: a well-formed request to submitUsdcPayment or verifyCroPaymentEndpoint
\* that names a network other than cronos-mainnet and cronos-testnet is answered
\* with HTTP 400 "Unsupported network", and the handler has then neither run
\* the authorization validator nor made any facilitator request or chain query
C11_UnsupportedNetworkRejected ==
    /\ (caller = "route" /\ body.hasAuthorization /\ body.network \notin KnownNetworks) =>
          /\ pc = "done"
          /\ response.status = 400
          /\ response.error = UnsupportedNetworkText
          /\ response.errorNetwork = body.network
          /\ ~validation.ran
          /\ requests = <<>> /\ trace = <<>> /\ queries = <<>>
    /\ (caller = "endpoint" /\ croBody.txHash # Undefined
                            /\ croBody.network \notin KnownNetworks) =>
          /\ pc = "done"
          /\ croResponse.status = 400
          /\ croResponse.error = UnsupportedNetworkText
          /\ croResponse.errorNetwork = croBody.network
          /\ ~verification.settled
          /\ requests = <<>> /\ trace = <<>> /\ queries = <<>>

C11_Witness ==
    /\ caller = "endpoint"
    /\ croBody.txHash = TX_HASH
    /\ croBody.network = "ethereum"
    /\ croResponse.status = 400
    /\ croResponse.errorNetwork = "ethereum"

\* what the client call `op` returned or threw
ResultOf(op) ==
    CASE op = "verify" -> verifyResult
      [] op = "settle" -> settleResult
      [] OTHER -> clientResult

\* the step in which the client call `op` ends
Ends(op) == pc = op /\ ~ResultOf(op).settled /\ ResultOf(op)'.settled

\* C12: for health, supported, verify and settle alike, a call whose response
\* has a non-2xx status throws a "Facilitator API error" carrying that status
\* and the body text, and a call whose 2xx response parses returns the parsed
\* body as a value, also when it says valid:false or success:false
C12_StatusFailuresRaised ==
    [][\A op \in ClientOps :
          (Ends(op) /\ wire.phase = "body") =>
             /\ wire.outcome.kind = "status" =>
                   /\ ResultOf(op)'.threw
                   /\ ResultOf(op)'.message.text = "Facilitator API error"
                   /\ ResultOf(op)'.message.status = wire.outcome.status
                   /\ wire.outcome.textOk =>
                         ResultOf(op)'.message.body = wire.outcome.text
             /\ wire.outcome.kind = "ok" =>
                   /\ ~ResultOf(op)'.threw
                   /\ ResultOf(op)'.value = wire.outcome.json]_vars

C12_Witness ==
    /\ pc = "done"
    /\ VerifySaid(TRUE)
    /\ wire.outcome.kind = "status"
    /\ settleResult.threw
    /\ settleResult.message.status = 404
    /\ settleResult.message.body = "Not found"

TimeoutText == "Facilitator request timeout after"

ChainQueryFailed == thrown = "HTTP request failed."

\* C14: an outcome caused by a failed facilitator call or a failed chain query
\* is kept apart from the business rejections of the operation: submitUsdcPayment
\* answers a thrown client error with "Internal server error", which no
\* rejection uses; verifyCroPayment does not resolve to an ordinary
\* {valid:false} result, and the endpoint does not answer with the HTTP 400 of
\* its rejections, when a chain query failed
C14_TransportErrorsDistinct ==
    /\ (caller = "route" /\ pc = "done" /\ vas.settled) =>
          (vas.threw <=> response.error = "Internal server error")
    /\ (verification.settled /\ ChainQueryFailed) =>
          /\ verification.valid
          /\ caller = "endpoint" => croResponse.status # 400

CountOf(endpoint) == Cardinality({i \in 1..Len(requests) : requests[i].endpoint = endpoint})

\* C15: a health or supported call has made exactly one HTTP request from the
\* moment it is issued, however it ends; a verifyAndSettle invocation has made
\* exactly one verify request, and one settle request exactly when verifyPayment
\* returned valid=true, never more
C15_NoRetries ==
    /\ (pc \in {"health", "supported"} \/ clientResult.settled) =>
          /\ Len(requests) = 1
          /\ requests[1].endpoint \in {ENDPOINTS.HEALTH, ENDPOINTS.SUPPORTED}
          /\ requests[1].method = "GET"
    /\ (pc \in {"verify", "settle"} \/ vas.settled) =>
          /\ CountOf(ENDPOINTS.VERIFY) = 1
          /\ CountOf(ENDPOINTS.SETTLE) = IF VerifySaid(TRUE) THEN 1 ELSE 0
          /\ Len(requests) = CountOf(ENDPOINTS.VERIFY) + CountOf(ENDPOINTS.SETTLE)

C15_Witness ==
    /\ pc = "done"
    /\ clientResult.threw
    /\ wire.aborted
    /\ trace[1].op = "health"
    /\ Len(requests) = 1

\* the expected amount in wei
ExpectedWei ==
    IF croCall.expectedAmount = <<"0", ".", "5">> THEN <<"5">> \o Repeat("0", 17) ELSE ONE_CRO

ReceiptFound == chain.receipt.present
ReceiptSucceeded == chain.receipt.status = "success"
RecipientMatches ==
    ~chain.tx.toNull /\ chain.tx.to \in {CRO_RECIPIENT, CRO_RECIPIENT_LOWER}
AmountSufficient == ~BigIntLess(chain.tx.value, ExpectedWei)
Depth == chain.head - chain.receipt.blockNumber
Required == IF croCall.minConfirmations.present THEN croCall.minConfirmations.n ELSE 2
Confirmed == Depth >= Required

\* the sub-reason of the first check that fails on what the chain holds
FirstFailure ==
    IF ~ReceiptFound THEN "Transaction not found"
    ELSE IF ~ReceiptSucceeded THEN "Transaction failed"
    ELSE IF ~RecipientMatches THEN "Invalid recipient"
    ELSE IF ~AmountSufficient THEN "Insufficient amount"
    ELSE IF ~Confirmed THEN "Insufficient confirmations"
    ELSE Undefined

\* every query of the invocation was answered and the expected amount is a
\* decimal number; the transaction of a found receipt is found too
Answered ==
    /\ verification.settled
    /\ thrown = Undefined
    /\ (ReceiptFound /\ ReceiptSucceeded) => chain.tx.present

C17_ValidIffAllChecksPass ==
    /\ Answered =>
          (verification.valid <=>
              /\ ReceiptFound /\ ReceiptSucceeded /\ chain.tx.present
              /\ RecipientMatches /\ AmountSufficient /\ Confirmed)
    /\ verification.valid =>
          /\ verification.settled
          /\ ReceiptFound /\ ReceiptSucceeded /\ chain.tx.present
          /\ RecipientMatches /\ AmountSufficient /\ Confirmed
          /\ verification.txHash = croCall.txHash
          /\ verification.receipt = chain.receipt

C17_Witness ==
    /\ verification.valid
    /\ chain.tx.to = CRO_RECIPIENT_LOWER
    /\ croCall.expectedRecipient = CRO_RECIPIENT
    /\ chain.tx.value = TWO_CRO

\* C18: the confirmation depth is head - receipt block; a payment that passes
\* the earlier checks is rejected with "Insufficient confirmations", the reason
\* naming the depth and the required count, when the depth is below
\* minConfirmations, and accepted from depth = minConfirmations on;
\* minConfirmations is 2 when the caller of verifyCroPayment or the request to
\* the endpoint leaves it out
C18_ConfirmationDepth ==
    /\ (Answered /\ ReceiptFound /\ ReceiptSucceeded /\ RecipientMatches
                 /\ AmountSufficient) =>
          IF Depth < Required
          THEN /\ ~verification.valid
               /\ verification.error = "Insufficient confirmations"
               /\ verification.reason.got = Depth
               /\ verification.reason.expected = Required
          ELSE verification.valid
    /\ (caller = "endpoint" /\ pc \in {"receipt", "transaction", "blockNumber"}
                            /\ ~croBody.minConfirmations.present) =>
          croCall.minConfirmations = [present |-> TRUE, n |-> 2]
    /\ (caller = "endpoint" /\ croBody.minConfirmations.present) =>
          (verification.settled => croCall.minConfirmations = croBody.minConfirmations)

C18_Witness ==
    /\ caller = "direct"
    /\ ~croCall.minConfirmations.present
    /\ verification.valid
    /\ chain.head = 4
    /\ chain.receipt.blockNumber = 2

ReadQueries == <<"getTransactionReceipt", "getTransaction", "getBlockNumber">>

\* C19: the chain queries of one verifyCroPayment invocation are a prefix of
\* getTransactionReceipt, getTransaction, getBlockNumber, each made once; the
\* invocation stops at the first failed check: one query after a missing or
\* reverted receipt, two after a recipient or amount failure, three otherwise,
\* and none is made once it has resolved; no facilitator request is made
C19_ReadOnlySequentialQueries ==
    /\ \E n \in 0..3 : queries = SubSeq(ReadQueries, 1, n)
    /\ pc = "receipt" => Len(queries) = 1
    /\ pc = "transaction" => Len(queries) = 2
    /\ pc = "blockNumber" => Len(queries) = 3
    /\ caller \in {"direct", "endpoint"} => requests = <<>>
    /\ (verification.settled /\ thrown = Undefined) =>
          /\ verification.error \in {"Transaction not found", "Transaction failed"} =>
                Len(queries) = 1
          /\ verification.error \in {"Transaction details not found", "Invalid recipient",
                                     "Insufficient amount"} =>
                Len(queries) = 2
          /\ (verification.error = "Insufficient confirmations" \/ verification.valid) =>
                Len(queries) = 3

C19_Witness ==
    /\ verification.settled
    /\ verification.error = "Invalid recipient"
    /\ queries = <<"getTransactionReceipt", "getTransaction">>
    /\ pc = "done"

\* the sign, the integer digits and the fraction digits of a decimal text
SignOf(amount) == Len(amount) > 0 /\ amount[1] = "-"
Unsigned(amount) == IF SignOf(amount) THEN Tail(amount) ELSE amount
DotOf(amount) ==
    IF \E i \in 1..Len(Unsigned(amount)) : Unsigned(amount)[i] = "."
    THEN CHOOSE i \in 1..Len(Unsigned(amount)) : Unsigned(amount)[i] = "."
    ELSE Len(Unsigned(amount)) + 1
IntegerDigits(amount) == SubSeq(Unsigned(amount), 1, DotOf(amount) - 1)
FractionDigits(amount) == SubSeq(Unsigned(amount), DotOf(amount) + 1, Len(Unsigned(amount)))

AllDigits(s) ==
    \A i \in 1..Len(s) : s[i] \in {"0", "1", "2", "3", "4", "5", "6", "7", "8", "9"}

\* a decimal amount with at most `scale` fraction digits
Representable(amount, scale) ==
    /\ AllDigits(IntegerDigits(amount))
    /\ AllDigits(FractionDigits(amount))
    /\ Len(IntegerDigits(amount)) + Len(FractionDigits(amount)) > 0
    /\ Len(FractionDigits(amount)) <= scale

\* the digits of a natural number, leading zeros dropped
RECURSIVE Canonical(_)
Canonical(s) ==
    IF Len(s) > 1 /\ s[1] = "0" THEN Canonical(Tail(s))
    ELSE IF Len(s) = 0 THEN <<"0">> ELSE s

Zeros(n) == [i \in 1..n |-> "0"]

\* value = amount x 10^scale, stated on integers: value x 10^f equals the
\* amount without its point x 10^scale, f the number of fraction digits, and
\* value is negative exactly when the amount is negative and not zero
ExactlyScaled(value, amount, scale) ==
    LET magnitude == IF Len(value) > 0 /\ value[1] = "-" THEN Tail(value) ELSE value
    IN  /\ Canonical(magnitude \o Zeros(Len(FractionDigits(amount))))
             = Canonical(IntegerDigits(amount) \o FractionDigits(amount) \o Zeros(scale))
        /\ (value[1] = "-") <=> (SignOf(amount) /\ magnitude # <<"0">>)
        /\ magnitude = Canonical(magnitude)

RECURSIVE Pow10(_)
Pow10(n) == IF n = 0 THEN 1 ELSE 10 * Pow10(n - 1)

RECURSIVE NatOf(_)
NatOf(s) ==
    IF Len(s) = 0 THEN 0
    ELSE 10 * NatOf(SubSeq(s, 1, Len(s) - 1))
         + (CHOOSE d \in 0..9 : <<"0", "1", "2", "3", "4", "5", "6", "7", "8", "9">>[d + 1]
                                    = s[Len(s)])

\* C20: for every decimal amount text with at most 6 (18) fraction digits
\* createTransferAuthorization (buildCroTransaction) returns the value
\* amount x 10^6 (amount x 10^18) exactly: "1" gives 1000000 and "0.01" gives
\* 10000 base units of USDC, "1" gives 10^18 wei
C20_ExactAmountScaling ==
    /\ (built.op = "createTransferAuthorization" /\ Representable(built.amount, 6)) =>
          /\ ~built.threw
          /\ ExactlyScaled(built.result.value, built.amount, 6)
          /\ ~SignOf(built.amount) =>
                NatOf(built.result.value)
                    = NatOf(IntegerDigits(built.amount)) * Pow10(6)
                      + NatOf(FractionDigits(built.amount))
                            * Pow10(6 - Len(FractionDigits(built.amount)))
          /\ built.amount = <<"1">> =>
                built.result.value = <<"1", "0", "0", "0", "0", "0", "0">>
          /\ built.amount = <<"0", ".", "0", "1">> =>
                built.result.value = <<"1", "0", "0", "0", "0">>
    /\ (built.op = "buildCroTransaction" /\ Representable(built.amount, 18)) =>
          /\ ~built.threw
          /\ ExactlyScaled(built.result.value, built.amount, 18)
          /\ built.amount = <<"1">> =>
                built.result.value = <<"1", "0", "0", "0", "0", "0", "0", "0", "0", "0",
                                       "0", "0", "0", "0", "0", "0", "0", "0", "0">>

C20_Witness ==
    /\ built.op = "buildCroTransaction"
    /\ ~built.threw
    /\ built.amount = <<"1", "2", "3", "4", "5", "6", "7", "8", "9", "0", ".",
                        "9", "9", "9", "9", "9", "9", "9", "9", "9",
                        "9", "9", "9", "9", "9", "9", "9", "9", "9">>
    /\ built.result.value = <<"1", "2", "3", "4", "5", "6", "7", "8", "9", "0",
                              "9", "9", "9", "9", "9", "9", "9", "9", "9",
                              "9", "9", "9", "9", "9", "9", "9", "9", "9">>


\* what the type Address promises: one of the well-formed addresses of the inputs
IsAddress(a) == a \in {PAYER, PAYER_LOWER, RECIPIENT, CRO_ADDRESS}

\* a bigint kept as text that is zero or below
NonPositive(v) == IsNegative(v) \/ \A i \in 1..Len(v) : v[i] = "0"

Authorized == built.op = "createTransferAuthorization" /\ ~built.threw

\* C21: the authorization builder returns no authorization for a malformed
\* address or a non-positive amount: every authorization it returns has
\* well-formed addresses and a value above zero
C21_BuilderRejectsBadInput ==
    Authorized =>
        /\ IsAddress(built.result.from)
        /\ IsAddress(built.result.to)
        /\ ~NonPositive(built.result.value)

\* C22: every authorization createTransferAuthorization returns has validAfter 0
\* and validBefore = the unix second of the call + validityWindow (3600 when
\* left out), and carries from and to as they were passed
C22_ValidityWindow ==
    Authorized =>
        /\ built.result.validAfter = 0
        /\ built.validityWindow.present =>
              built.result.validBefore = built.at + built.validityWindow.n
        /\ ~built.validityWindow.present => built.result.validBefore = built.at + 3600
        /\ built.result.from = built.from
        /\ built.result.to = built.to

C22_Witness ==
    /\ Authorized
    /\ ~built.validityWindow.present
    /\ built.at > 0
    /\ built.result.validBefore = built.at + 3600

\* the value of lowercase hex text, most significant digit first
RECURSIVE HexValue(_)
HexValue(s) ==
    IF s = <<>> THEN 0
    ELSE 16 * HexValue(SubSeq(s, 1, Len(s) - 1))
         + (CHOOSE d \in 0..15 : LowerHexChars[d + 1] = s[Len(s)])

IsLowerHex(s) == \A i \in 1..Len(s) : \E d \in 1..16 : LowerHexChars[d] = s[i]

HexIndex(ch) == CHOOSE d \in 1..16 : LowerHexChars[d] = ch

\* a sorts before b as text (code unit order; digits sort before letters): at
\* the first place where they differ a has the smaller character, or a ends
SortsBefore(a, b) ==
    LET common == IF Len(a) < Len(b) THEN Len(a) ELSE Len(b)
        differ == {i \in 3..common : a[i] # b[i]}
    IN  IF differ = {} THEN Len(a) < Len(b)
        ELSE LET first == CHOOSE i \in differ : \A j \in differ : i <= j
             IN  HexIndex(a[first]) < HexIndex(b[first])

\* creation times in milliseconds: those of the model's clock and two around
\* the point where the hex text gains a digit
NonceTimes == {n * 1000 + m : n \in 0..MaxNow, m \in Millis} \cup {4095, 4096}

\* the nonce check of the validator alone
PassesNonceCheck(nonce) ==
    validateTransferAuthorization(
        [from |-> PAYER, to |-> RECIPIENT, value |-> 1, validAfter |-> 0,
         validBefore |-> 1, nonce |-> nonce], 0).valid

\* C23: a generated nonce is "0x" and 64 lowercase hex digits, the first 16 of
\* them the creation time in milliseconds, big-endian; it passes the validator's
\* nonce check, and no nonce generated at a later time sorts before it
C23_NonceFormat ==
    Authorized =>
        LET nonce == built.result.nonce
        IN  /\ Len(nonce) = 66
            /\ SubSeq(nonce, 1, 2) = <<"0", "x">>
            /\ IsLowerHex(SubSeq(nonce, 3, 66))
            /\ HexValue(SubSeq(nonce, 3, 18)) = built.ms
            /\ PassesNonceCheck(nonce)
            /\ \A later \in {t \in NonceTimes : t > built.ms}, rnd \in RandomBytes :
                  ~SortsBefore(generateNonce(later, rnd), nonce)

C23_Witness ==
    /\ Authorized
    /\ built.ms = 999
    /\ SubSeq(built.result.nonce, 3, 18) = Repeat("0", 13) \o <<"3", "e", "7">>
    /\ built.result.nonce[19] = "f"


OtherNetwork(network) ==
    IF network = "cronos-mainnet" THEN "cronos-testnet" ELSE "cronos-mainnet"

\* the domain the stable-asset contract of a network computes digests with: its
\* own chain id and its own address
ContractDomain(network) ==
    [name |-> "Bridged USDC (Stargate)", version |-> "1",
     chainId |-> IF network = "cronos-mainnet" THEN 25 ELSE 338,
     verifyingContract |->
        IF network = "cronos-mainnet" THEN "0xf951eC28187D9E5Ca673Da8FE6757E6f0Be5F77C"
                                      ELSE "0xc01efAaF7C5C61bEbFAeb358E1161b537b8bC0e0"]

\* the contract of a network accepts the signature as the key's over the message
ValidOn(network, signature, key, message) ==
    signature = signTypedData(key, ContractDomain(network), message)

Signed == built.op = "signTransferAuthorization"

\* C24: the domain a signature is made under holds the chain id (25 production,
\* 338 test) and the stable-asset address of its network; the same fields signed
\* with the same key for the other network give a different signature, and the
\* signature is valid on its own network and not on the other
C24_SignatureBoundToNetwork ==
    Signed =>
        LET other == signTransferAuthorization(built.result, built.key,
                                               OtherNetwork(built.network))
        IN  /\ built.signature.domain = ContractDomain(built.network)
            /\ other.authorization = built.result
            /\ other.signature # built.signature
            /\ ValidOn(built.network, built.signature, built.key, built.result)
            /\ ~ValidOn(OtherNetwork(built.network), built.signature, built.key,
                        built.result)

C24_Witness ==
    /\ Signed
    /\ built.network = "cronos-mainnet"
    /\ built.signature.domain.chainId = 25
    /\ built.key = TEST_PRIVATE_KEY


HasActiveWallet(db) == \E i \in 1..Len(db.rows) : db.rows[i].isActive

\* the asset is the stable asset of the network, in any letter case
IsStableAsset(asset, network) ==
    \/ network = "cronos-mainnet"
       /\ toLowerCase(asset) = toLowerCase(Text("0xf951eC28187D9E5Ca673Da8FE6757E6f0Be5F77C"))
    \/ network = "cronos-testnet"
       /\ toLowerCase(asset) = toLowerCase(Text("0xc01efAaF7C5C61bEbFAeb358E1161b537b8bC0e0"))

\* the asset is the native-asset sentinel: the zero address in any letter case,
\* or its short form 0x0
IsNativeSentinel(asset) ==
    \/ toLowerCase(asset) = <<"0", "x">> \o Repeat("0", 40)
    \/ asset = <<"0", "x", "0">>

\* C25: canSign answers true exactly when the payer has an active wallet, the
\* requirement's network is one of the two known networks and its asset is that
\* network's stable asset (letter case ignored) or the native-asset sentinel;
\* when any of the three fails it answers false
C25_CanSign ==
    (strategy.op = "canSign" /\ ~strategy.threw) =>
        (strategy.value <=>
            /\ HasActiveWallet(strategy.db)
            /\ strategy.network \in {"cronos-mainnet", "cronos-testnet"}
            /\ \/ IsStableAsset(strategy.asset, strategy.network)
               \/ IsNativeSentinel(strategy.asset))

C25_Witness ==
    /\ strategy.op = "canSign"
    /\ strategy.value
    /\ strategy.network = "cronos-mainnet"
    /\ strategy.asset = toLowerCase(Text(USDC_ADDRESS.MAINNET))
    /\ Len(strategy.db.rows) = 2

WalletRequiredTexts ==
    {"No wallet connected. Please connect a Cronos wallet.",
     "USDC.e payment signing requires wallet integration (coming soon). Please use the web interface with MetaMask or Crypto.com Wallet.",
     "Native CRO payments require wallet client (MetaMask, etc.). Please use the web interface to complete this payment."}

C27_NoRequestAfterExpiry ==
    [][(caller' = "route" /\ Len(requests') > Len(requests))
          => now' < call'.authorization.validBefore]_vars


\* what invocation c ends with, from the answers to its own requests alone:
\* verify (v) and, when one was sent, settle (t)
OwnOutcome(c, v, t) ==
    LET rv == fetch(CronosFacilitatorClient, v)
        rt == fetch(CronosFacilitatorClient, t)
    IN  IF c.op = "healthCheck" THEN Settled(rv)
        ELSE IF rv.threw THEN Settled(rv)
        ELSE IF ~(rv.data.valid = TRUE)
        THEN Returned(verifyAndSettle_afterVerify(rv.data).value)
        ELSE IF rt.threw THEN Settled(rt)
        ELSE Returned(rt.data)

ConfigurationKept == client = CronosFacilitatorClient

\* a call's timer is armed exactly while its own fetch is pending, and its
\* fetch is aborted only by its own timer
OwnTimer(i) ==
    /\ calls[i].timer = 1 <=> (InFlight(i) /\ calls[i].wire.phase = "fetch")
    /\ calls[i].wire.aborted => calls[i].wire.expired

\* a finished call's result is the one the answers to its own requests determine
OwnResult(i) ==
    (calls[i].pc = "done" /\ Len(calls[i].requests) > 0) =>
        /\ Len(calls[i].answers) = Len(calls[i].requests)
        /\ calls[i].vas = OwnOutcome(calls[i], calls[i].answers[1],
                                     calls[i].answers[Len(calls[i].answers)])

\* a step of one call leaves every other call as it was
NoInterference ==
    \A i \in Slots : calls'[i] # calls[i] => \A j \in Slots \ {i} : calls'[j] = calls[j]

\* C28: under every interleaving of concurrent calls on one client the
\* configuration stays as constructed, each call has its own timer and abort,
\* a timeout or failure of one call changes no other call, and a call's
\* result depends only on the answers to its own requests
C28_SharedClientSafe ==
    /\ [](ConfigurationKept /\ \A i \in Slots : OwnTimer(i) /\ OwnResult(i))
    /\ [][NoInterference]_vars

\* one call timed out while the other, sent before the timeout, got its answer
C28_Witness ==
    \E i, j \in Slots :
        /\ calls[i].pc = "done" /\ calls[i].wire.aborted
        /\ calls[j].pc = "done" /\ ~calls[j].wire.aborted
        /\ calls[j].op = "submitUsdcPayment" /\ Len(calls[j].requests) = 2
        /\ calls[j].response.status = 200


Submitted(i) == calls[i].op = "submitUsdcPayment"

\* the verify request of invocation i was answered "valid"
VerifiedValid(i) ==
    /\ Len(calls[i].answers) >= 1
    /\ calls[i].answers[1].kind = "ok"
    /\ calls[i].answers[1].json.valid = TRUE

\* C29: each submission of the same valid signed authorization, after or
\* during another one, is passed on: it is not answered locally (no 400), its
\* verify request is sent, and its settle request is sent exactly when its
\* verify request was answered valid; nothing of a submission is kept
C29_NoLocalReplayDetection ==
    \A i \in Slots : Submitted(i) =>
        /\ calls[i].response.status # 400
        /\ Len(calls[i].requests) >= 1
        /\ calls[i].requests[1].endpoint = "/v2/x402/verify"
        /\ calls[i].requests[1].nonce = REPLAY_BODY.authorization.nonce
        /\ Len(calls[i].requests) <= 2
        /\ Len(calls[i].requests) = 2 <=> VerifiedValid(i)
        /\ Len(calls[i].requests) = 2 =>
              /\ calls[i].requests[2].endpoint = "/v2/x402/settle"
              /\ calls[i].requests[2].nonce = REPLAY_BODY.authorization.nonce
        /\ <<pc, requests, response>> = <<"idle", <<>>, NoResponse>>

\* two submissions of the authorization, the second begun while the first was
\* settling, both verified and both settled
C29_Witness ==
    \E i, j \in Slots :
        /\ i # j
        /\ Submitted(i) /\ Submitted(j)
        /\ calls[i].pc = "done" /\ calls[i].response.status = 200
        /\ calls[j].pc = "done" /\ calls[j].response.status = 200
        /\ Len(calls[i].requests) = 2 /\ Len(calls[j].requests) = 2


\* the text is the decimal notation of n
DecimalOf(text, n) == BigIntParse(text).ok /\ BigIntParse(text).val = n /\ text = BigIntToString(n)

\* C30: the settle request of verifyAndSettle carries the network, the token
\* and the authorization fields of the verify request before it (the integers
\* as decimal strings), and the verificationId of the verify response, or none
\* when the response had none
C30_SettleCarriesVerifiedFields ==
    Len(requests) = 2 =>
        LET v == requests[1]
            t == requests[2]
            a == call.authorization
        IN  /\ v.endpoint = "/v2/x402/verify" /\ t.endpoint = "/v2/x402/settle"
            /\ t.network = v.network /\ t.network = call.network
            /\ t.token = v.token /\ t.token = call.token
            /\ t.from = v.from /\ t.from = a.from
            /\ t.to = v.to /\ t.to = a.to
            /\ t.value = v.value /\ DecimalOf(t.value, a.value)
            /\ t.validAfter = v.validAfter /\ DecimalOf(t.validAfter, a.validAfter)
            /\ t.validBefore = v.validBefore /\ DecimalOf(t.validBefore, a.validBefore)
            /\ t.nonce = v.nonce /\ t.nonce = a.nonce
            /\ t.signature = v.signature /\ t.signature = a.signature
            /\ v.verificationId = Undefined
            /\ verifyResult.settled /\ ~verifyResult.threw
            /\ t.verificationId = verifyResult.value.verificationId

C30_Witness ==
    /\ Len(requests) = 2
    /\ requests[2].verificationId = "verify_123"
    /\ requests[2].validBefore = <<"2">>
    /\ requests[2].value = <<"1">>


\* an amount text above zero: a decimal number without sign that has a digit
\* other than 0
\* the settlement service answered the health call, and with which status
AnsweredWith(status) ==
    health.outcome.kind = "ok" /\ health.outcome.json.status = status

\* C31: checkFacilitatorHealth reports healthy = true exactly when the
\* settlement service answered the health call with status "healthy", and when
\* the health call fails (timeout, connection failure, non-2xx) it answers
\* 503 with healthy = false and status "unhealthy"
C31_HealthReport ==
    health.pc = "done" =>
        /\ health.response.healthy <=> AnsweredWith("healthy")
        /\ health.outcome.kind # "ok" =>
              /\ health.response.status = 503
              /\ ~health.response.healthy
              /\ health.response.serviceStatus = "unhealthy"

\* the references returned by calls of the factory function `by`
ReturnedBy(by) == {i \in DOMAIN handles : handles[i].by = by}

\* C32: getFacilitatorClient returns the same instance every time, the
\* default client is constructed at most once and on first use, and every
\* createFacilitatorClient call returns an instance distinct from all others
\* and from the default
C32_Singleton ==
    /\ \A i, j \in ReturnedBy("getFacilitatorClient") : handles[i].ref = handles[j].ref
    /\ \A i \in ReturnedBy("getFacilitatorClient") : handles[i].ref = defaultClient
    /\ defaultClient = Null <=> ReturnedBy("getFacilitatorClient") = {}
    /\ Len(heap) = Cardinality(ReturnedBy("createFacilitatorClient"))
                     + (IF defaultClient = Null THEN 0 ELSE 1)
    /\ \A i \in ReturnedBy("createFacilitatorClient") :
          /\ handles[i].ref \in DOMAIN heap
          /\ handles[i].ref # defaultClient
          /\ \A j \in DOMAIN handles : j # i => handles[j].ref # handles[i].ref

\* the default client was asked for twice, with a created client before and
\* between
C32_Witness ==
    /\ Len(handles) = 4
    /\ handles[1].by = "createFacilitatorClient"
    /\ handles[2].by = "getFacilitatorClient"
    /\ handles[3].by = "createFacilitatorClient"
    /\ handles[4].by = "getFacilitatorClient"

\* C33: every settlement-client call ends: a call in flight eventually
\* returns or fails, also when the service never answers or never finishes
\* the body, and no timer stays armed after the call has ended
C33_CallsTerminate ==
    /\ \A i \in Slots : InFlight(i) ~> ~InFlight(i)
    /\ [](\A i \in Slots : ~InFlight(i) => calls[i].timer = 0)

PositiveAmount(amount) ==
    /\ IsDecimalNumber(amount)
    /\ ~IsNegative(amount)
    /\ \E i \in 1..Len(amount) : amount[i] \in {"1", "2", "3", "4", "5", "6", "7", "8", "9"}

\* the authorization the builder returned, as the validator reads it
BuiltAuthorization ==
    [from |-> built.result.from, to |-> built.result.to,
     value |-> BigIntParse(built.result.value).val,
     validAfter |-> built.result.validAfter, validBefore |-> built.result.validBefore,
     nonce |-> built.result.nonce]

\* C34: for a positive amount, from # to and a validity window above zero, the
\* authorization createTransferAuthorization returns is accepted by
\* validateTransferAuthorization at every time from its creation up to
\* validBefore, and rejected as expired from validBefore on
C34_BuildThenValidate ==
    (/\ built.op = "createTransferAuthorization"
     /\ PositiveAmount(built.amount)
     /\ built.from # built.to
     /\ built.validityWindow.present => built.validityWindow.n > 0) =>
        /\ ~built.threw
        /\ \A t \in {built.at, built.at + 1, built.result.validBefore - 1,
                     built.result.validBefore, built.result.validBefore + 1} :
              LET v == validateTransferAuthorization(BuiltAuthorization, t)
              IN  IF t < built.result.validBefore
                  THEN v.valid
                  ELSE ~v.valid /\ v.error = "Authorization has expired"

\* the two texts are equal when letter case is ignored
SameIgnoringCase(a, b) ==
    Len(a) = Len(b) /\ \A i \in 1..Len(a) : LowerOf(a[i]) = LowerOf(b[i])

IsZeroAddress(a) == a = <<"0", "x">> \o [i \in 1..40 |-> "0"]

\* C35: validateCroTransaction checks value > 0, then from # to without
\* regard to letter case, then to # zero address, and returns the message of
\* the first check that fails, or valid with no error
C35_CroTransactionChecks ==
    croTx.ran =>
        LET t == croTx.transaction
        IN  croTx.result =
              IF t.value <= 0
              THEN [valid |-> FALSE, error |-> "Transfer amount must be positive"]
              ELSE IF SameIgnoringCase(t.from, t.to)
              THEN [valid |-> FALSE, error |-> "Cannot transfer to self"]
              ELSE IF IsZeroAddress(t.to)
              THEN [valid |-> FALSE, error |-> "Cannot transfer to zero address"]
              ELSE [valid |-> TRUE, error |-> Undefined]

\* a positive transfer from the zero address to the zero address: both the
\* self-transfer and the zero-address check fail, the first one is reported
C35_Witness ==
    /\ croTx.ran
    /\ croTx.transaction.value > 0
    /\ IsZeroAddress(croTx.transaction.from)
    /\ IsZeroAddress(croTx.transaction.to)
    /\ croTx.result.error = "Cannot transfer to self"

\* what a caller of verifyAndSettle gets when the verify call times out
VerifyTimeout == Settled(fetch(CronosFacilitatorClient, Aborted))

\* C36: a timeout of verifyAndSettle tells whether the settle request had been
\* sent: what the caller gets after a timeout of the settle call differs from
\* what it gets after a timeout of the verify call
C36_TimeoutTellsPhase ==
    (pc = "done" /\ wire.aborted /\ Len(requests) = 2) =>
        /\ vas # VerifyTimeout
        /\ caller = "route" =>
              response # submitUsdcPayment_finish(call.network, VerifyTimeout)

\* the two texts name one account
SameAccount(a, b) == a = b \/ {a, b} = {PAYER, PAYER_LOWER}

\* C37: validateTransferAuthorization rejects as a self-transfer an
\* authorization with a positive value whose from and to are the same account
\* in different letter case
C37_SelfTransferAnyCase ==
    (validation.ran /\ call.authorization.value > 0
        /\ SameAccount(call.authorization.from, call.authorization.to)) =>
        (~validation.valid /\ validation.error = "Cannot transfer to self")

\* the text is an integer literal: digits, with or without a sign
IsIntegerLiteral(s) ==
    /\ Len(s) > 0
    /\ IF s[1] \in {"-", "+"} THEN Len(s) > 1 /\ IsDigits(Tail(s)) ELSE IsDigits(s)

\* C38: a submitUsdcPayment request that passes the schema and names a known
\* network while its value, validAfter or validBefore is no integer literal is
\* answered 400 without a request to the settlement service, never 500
C38_MalformedIntegersRejected ==
    (/\ caller = "route"
     /\ pc = "done"
     /\ body.hasAuthorization
     /\ isCronosNetwork(body.network)
     /\ \/ ~IsIntegerLiteral(body.authorization.value)
        \/ ~IsIntegerLiteral(body.authorization.validAfter)
        \/ ~IsIntegerLiteral(body.authorization.validBefore)) =>
        /\ response.status = 400
        /\ requests = <<>>

\* what verifyCroPayment resolves to for the payment on the ledger when the
\* head is at height h and every query is answered
VerifiedAt(c, l, h) ==
    LET r == verifyCroPayment_afterReceipt(c.txHash, Answer("value", l.receipt, Undefined))
        t == verifyCroPayment_afterTransaction(c.txHash, l.receipt,
                 Answer("value", l.tx, Undefined), c.expectedRecipient, c.expectedAmount)
        b == verifyCroPayment_afterBlockNumber(c.txHash, l.receipt,
                 Answer("value", h, Undefined),
                 verifyCroPayment_minConfirmations(c.minConfirmations))
    IN  IF r.return THEN r.value ELSE IF t.return THEN t.value ELSE b.value

\* the receipt, status, recipient and amount checks pass for the watched payment
PaymentPasses ==
    /\ watch.pc # "idle"
    /\ ledger.receipt.status = "success"
    /\ ~ledger.tx.toNull
    /\ SameIgnoringCase(ledger.tx.to, watch.call.expectedRecipient)
    /\ ~BigIntLess(ledger.tx.value,
                   IF watch.call.expectedAmount = <<"1">> THEN ONE_CRO
                   ELSE <<"5">> \o Repeat("0", 17))

\* the confirmations asked for fit under the highest head of the model
DepthReachable ==
    ledger.receipt.blockNumber
        + (IF watch.call.minConfirmations.present THEN watch.call.minConfirmations.n ELSE 2)
      <= MaxHead

\* acceptance at a height implies acceptance at every greater height
MonotonicInHeight ==
    PaymentPasses =>
        \A h \in 0..MaxHead : \A later \in h..(MaxHead + 1) :
            VerifiedAt(watch.call, ledger, h).valid
                => VerifiedAt(watch.call, ledger, later).valid

\* an invocation that ends after an accepted one accepts too
StaysAccepted == (watch.result.valid /\ watch'.pc = "done") => watch'.result.valid

====
